---------------------------- MODULE Spec2Model ----------------------------
(***************************************************************************)
(* Model of the pinglow controller / scheduler / runner pipeline.          *)
(*                                                                         *)
(*   Spec         the scheduler task (scheduler.rs) with the event channel *)
(*                fed by the reconciler                                    *)
(*   SpecRunner   the runner loop and its spawned executions (runner.rs,   *)
(*                executor.rs, queue.rs)                                   *)
(*   SpecResults  the result consumer (results.rs, lib.rs, check.rs)       *)
(*   SpecNotify   the result consumer started with one result of every     *)
(*                status, channel list and mute setting on the stream      *)
(*   SpecResultsFair  SpecResults with the consumer task kept running      *)
(*   SpecReconcile    the reconciler (controller.rs, lib.rs) with the      *)
(*                upstream objects changing and the scheduler's event      *)
(*                handling                                                 *)
(*   SpecFacade   the mute routes (api.rs) with the reconciler and the     *)
(*                scheduler                                                *)
(*   SpecUnvalidated  the scheduler fed with checks of any interval        *)
(*   SpecStartup  main's load_checks over the checks found at startup      *)
(*   SpecApi      the six routes of the API behind the key guard           *)
(*   SpecStatus   the places where an integer becomes a status             *)
(*   SpecOutputs  the result consumer started with one result of any       *)
(*                output text                                              *)
(*   SpecStreams  init_streams run by the controller and the runners       *)
(*   SpecDeclared main's load_checks over any number of declared checks,   *)
(*                with the capacity of the event channel                   *)
(*   SpecScripts  the runner with the script file its executions share     *)
(*   SpecModel    the writers of the model: the scheduler fed by the       *)
(*                reconciler, and the mute routes                          *)
(*   SpecDispatch a task from its dispatch to the notification of its      *)
(*                result, with the mute routes                             *)
(*                                                                         *)
(* Option<T> is modelled as a sequence: None is <<>>, Some(v) is <<v>>.    *)
(***************************************************************************)
EXTENDS Integers, Sequences, FiniteSets, TLC

VARIABLES
    shared_checks,   \* SharedPinglowChecks: check name -> PinglowCheck
    queue,           \* scheduler_loop's BTreeMap<Instant, ScheduledCheck>
    event_rx,        \* the mpsc channel of RunnableCheckEvent
    now,             \* the clock (Instant::now / Utc::now)
    scheduler,       \* "running" or "panicked" (the scheduler task)
    sched_log,       \* per check name, the task the scheduler published last
    tasks_stream,    \* entries of pinglow:checks with their state in group workers
    results_stream,  \* entries of pinglow:results with their state in group controller
    runner,          \* the runner's read loop (runner.rs run) and its shutdown token
    execs,           \* the executions spawned by the runner, by task entry id
    script_py,       \* per check name, the content of <base_path>/check-<name>/script.py
    consumer,        \* the result consumer's loop (results.rs run)
    check_result,    \* the rows of table check_result
    perf_data,       \* the rows of table check_result_perf_data
    notifications,   \* the sendMessage requests made to the chat webhook
    cluster,         \* the upstream objects: checks, scripts, channels, secrets
    shared_original_checks,  \* SharedChecks: check name -> Check (the raw model)
    pending,         \* the checks the controller runtime has yet to reconcile
    last_reconcile,  \* per check name, how its last reconcile ended
    api_log,         \* per check name, the last mute request that succeeded
    main,            \* the controller's main: where its startup is
    request,         \* the last request the API answered, with the answer
    job,             \* the last check run as a Job: its exit code and status
    groups,          \* the consumer groups of the two streams
    init_pc          \* per process, the commands of init_streams it has sent

schedVars == <<shared_checks, queue, event_rx, scheduler, sched_log>>

runnerVars == <<tasks_stream, runner, execs, script_py>>

resultVars == <<consumer, check_result, perf_data, notifications>>

groupVars == <<groups, init_pc>>

controlVars == <<cluster, shared_original_checks, pending, last_reconcile, api_log, main, request, job, groupVars>>

vars == <<schedVars, now, runnerVars, results_stream, resultVars, controlVars>>

----------------------------------------------------------------------------
(* Option<T> *)

None == <<>>

Some(v) == <<v>>

IsSome(o) == o # None

Unwrap(o) == o[1]

----------------------------------------------------------------------------
(* Bounds *)

Names == {"a", "b"}

MaxTime == 3

MaxInterval == 2

MaxChan == 1

Intervals == {None} \cup {Some(i) : i \in 1..MaxInterval}

\* the PinglowCheck records the reconciler materializes
ResolvedChecks ==
    {c \in [check_name : Names, passive : BOOLEAN, interval : Intervals,
            secrets : {None}, telegram_channels : {<<>>},
            mute_notifications : {None}, mute_notifications_until : {None}] :
        c.passive => c.interval = None}

AddOrUpdate(check) == [kind |-> "AddOrUpdate", check_name |-> check.check_name, check |-> check]

Remove(check_name) == [kind |-> "Remove", check_name |-> check_name, check |-> None]

RunnableCheckEvent ==
    {AddOrUpdate(c) : c \in ResolvedChecks} \cup {Remove(n) : n \in Names}

----------------------------------------------------------------------------
(* BTreeMap<Instant, ScheduledCheck> *)

EmptyQueue == [k \in {} |-> None]

ScheduledCheck(next_run, check) == [next_run |-> next_run, check |-> check]

\* BTreeMap::insert: the value stored under an existing key is replaced
Insert(q, k, v) == [x \in DOMAIN q \cup {k} |-> IF x = k THEN v ELSE q[x]]

KeysOf(q, check_name) == {k \in DOMAIN q : q[k].check.check_name = check_name}

MinKey(S) == CHOOSE k \in S : \A j \in S : k <= j

Min(a, b) == IF a <= b THEN a ELSE b

\* queue.retain(|_, sc| sc.check.check_name != check_name)
RetainNoKeep(q, check_name) == q

Retain(q, check_name) ==
    [k \in DOMAIN q \ KeysOf(q, check_name) |-> q[k]]

\* queue.extract_if(.., |_, sc| sc.check.check_name == check_name).next():
\* the iterator is advanced once, so only the first match in key order
\* leaves the map; the result is the removed value and the remaining map.
ExtractFirstNoMatch(q, check_name) == [removed |-> None, rest |-> q]

ExtractFirst(q, check_name) ==
    IF KeysOf(q, check_name) = {}
    THEN [removed |-> None, rest |-> q]
    ELSE LET k == MinKey(KeysOf(q, check_name))
         IN  [removed |-> Some(q[k]),
              rest |-> [x \in DOMAIN q \ {k} |-> q[x]]]

\* lines 57-61: an existing entry keeps its next_run
NextRunReset(removed, interval) == now + interval

NextRunFor(removed, interval) ==
    IF IsSome(removed) THEN Unwrap(removed).next_run ELSE now + interval

----------------------------------------------------------------------------
(* The tasks stream as the scheduler sees it: per check name the entry  *)
(* appended last (its next_run target and interval), whether the queue  *)
(* entry of the name was built from now + interval since then, and       *)
(* whether an earlier entry of the name preceded the last one.           *)

NoLog == [last |-> None, recreated |-> FALSE, again |-> FALSE]

\* the fields of a PinglowCheck a published task is looked at for
Task(check, target, interval) ==
    [next_run |-> target, interval |-> interval,
     mute_notifications |-> check.mute_notifications,
     mute_notifications_until |-> check.mute_notifications_until]

LogEvent(name, recreated) ==
    [sched_log EXCEPT ![name].recreated = IsSome(sched_log[name].last) /\ (recreated \/ @)]

LogPublish(check, target, interval) ==
    [sched_log EXCEPT ![check.check_name].last = Some(Task(check, target, interval)),
                      ![check.check_name].recreated = FALSE,
                      ![check.check_name].again = IsSome(sched_log[check.check_name].last)]

----------------------------------------------------------------------------
(* scheduler.rs *)

InitSched ==
    /\ shared_checks = [n \in {} |-> None]
    /\ queue = EmptyQueue
    /\ event_rx = <<>>
    /\ now = 0
    /\ scheduler = "running"
    /\ sched_log = [n \in Names |-> NoLog]

\* shared_checks.write().await.insert(name, check)
ModelInsert(m, name, check) ==
    [n \in DOMAIN m \cup {name} |-> IF n = name THEN check ELSE m[n]]

\* shared_checks.write().await.remove(name)
ModelRemove(m, name) == [n \in DOMAIN m \ {name} |-> m[n]]

\* handle_check_event, the AddOrUpdate arm
HandleAddOrUpdateKeepCheck(check) ==
    LET check_name == check.check_name IN
    /\ shared_checks' = ModelInsert(shared_checks, check_name, check)
    /\ IF check.passive \/ ~IsSome(check.interval)
       THEN /\ queue' = queue
            /\ sched_log' = sched_log
       ELSE LET ex == ExtractFirst(queue, check_name)
                next_run == NextRunFor(ex.removed, Unwrap(check.interval))
            IN  /\ queue' = Insert(ex.rest, next_run,
                                   IF IsSome(ex.removed) THEN Unwrap(ex.removed)
                                   ELSE ScheduledCheck(next_run, check))
                /\ sched_log' = LogEvent(check_name, ~IsSome(ex.removed))

HandleAddOrUpdate(check) ==
    LET check_name == check.check_name IN
    /\ shared_checks' = ModelInsert(shared_checks, check_name, check)
    /\ IF check.passive \/ ~IsSome(check.interval)
       THEN /\ queue' = queue
            /\ sched_log' = sched_log
       ELSE LET ex == ExtractFirst(queue, check_name)
                next_run == NextRunFor(ex.removed, Unwrap(check.interval))
            IN  /\ queue' = Insert(ex.rest, next_run, ScheduledCheck(next_run, check))
                /\ sched_log' = LogEvent(check_name, ~IsSome(ex.removed))

\* handle_check_event, the Remove arm
HandleRemoveModelOnly(check_name) ==
    /\ shared_checks' = ModelRemove(shared_checks, check_name)
    /\ queue' = queue
    /\ sched_log' = sched_log

HandleRemove(check_name) ==
    /\ shared_checks' = ModelRemove(shared_checks, check_name)
    /\ queue' = Retain(queue, check_name)
    /\ sched_log' = sched_log

\* scheduler_loop: event_rx.recv() wins the select (or the queue is empty)
HandleCheckEvent ==
    /\ scheduler = "running"
    /\ event_rx # <<>>
    /\ LET event == Head(event_rx) IN
          IF event.kind = "AddOrUpdate"
          THEN HandleAddOrUpdate(event.check)
          ELSE HandleRemove(event.check_name)
    /\ event_rx' = Tail(event_rx)
    /\ UNCHANGED <<now, scheduler, runnerVars, results_stream, resultVars, controlVars>>

\* scheduler_loop: tokio::time::sleep(delay) wins the select. The entry
\* slept on is the first of the queue; conn and xadd are the outcomes of
\* get_multiplexed_async_connection and of enqueue_check.
TimerFire ==
    /\ scheduler = "running"
    /\ DOMAIN queue # {}
    /\ LET scheduled_check == queue[MinKey(DOMAIN queue)]
           name == scheduled_check.check.check_name
       IN
       /\ scheduled_check.next_run <= now
       /\ \E conn \in {"ok", "err"}, xadd \in {"ok", "err"} :
            IF name \notin DOMAIN shared_checks \/ ~IsSome(scheduled_check.check.interval)
            THEN UNCHANGED <<queue, scheduler, sched_log>>     \* continue
            ELSE IF conn = "err"
            THEN /\ queue' = Retain(queue, name)               \* expect() panics
                 /\ scheduler' = "panicked"
                 /\ UNCHANGED sched_log
            ELSE LET check_interval == Unwrap(scheduled_check.check.interval)
                     next_run == scheduled_check.next_run + check_interval
                 IN  /\ queue' = Insert(Retain(queue, name), next_run,
                                        ScheduledCheck(next_run, scheduled_check.check))
                     /\ sched_log' = IF xadd = "ok"
                                     THEN LogPublish(scheduled_check.check, scheduled_check.next_run,
                                                     check_interval)
                                     ELSE sched_log
                     /\ UNCHANGED scheduler
    /\ UNCHANGED <<shared_checks, event_rx, now, runnerVars, results_stream, resultVars, controlVars>>

\* the reconciler (or load_checks) sends an event into the bounded channel
SendEvent ==
    /\ Len(event_rx) < MaxChan
    /\ \E event \in RunnableCheckEvent : event_rx' = Append(event_rx, event)
    /\ UNCHANGED <<shared_checks, queue, now, scheduler, sched_log, runnerVars, results_stream, resultVars, controlVars>>

\* the non-passive PinglowCheck records of a Check whose interval is absent,
\* zero or positive (CheckSpec::interval is an Option<u64> nothing validates)
UnvalidatedChecks ==
    [check_name : Names, passive : {FALSE}, interval : {None, Some(0), Some(1)},
     secrets : {None}, telegram_channels : {<<>>},
     mute_notifications : {None}, mute_notifications_until : {None}]

\* the reconciler sends the AddOrUpdate of such a check
SendUnvalidated ==
    /\ Len(event_rx) < MaxChan
    /\ \E check \in UnvalidatedChecks : event_rx' = Append(event_rx, AddOrUpdate(check))
    /\ UNCHANGED <<shared_checks, queue, now, scheduler, sched_log, runnerVars, results_stream, resultVars, controlVars>>

\* time passes
Tick ==
    /\ now < MaxTime
    /\ now' = now + 1
    /\ UNCHANGED <<schedVars, runnerVars, results_stream, resultVars, controlVars>>



----------------------------------------------------------------------------
(* check.rs: CheckResultStatus *)

CheckResultStatus == {"Ok", "Warning", "Critical", "CheckError", "Pending"}

\* impl From<i32> for CheckResultStatus (and From<i16>, the same table)
FromI32NoPending(value) ==
    CASE value = 0 -> "Ok"
      [] value = 1 -> "Warning"
      [] value = 2 -> "Critical"
      [] OTHER -> "CheckError"

FromI32(value) ==
    CASE value = 0 -> "Ok"
      [] value = 1 -> "Warning"
      [] value = 2 -> "Critical"
      [] value = 4 -> "Pending"
      [] OTHER -> "CheckError"

\* map_command_exit_code_to_check_result
map_command_exit_code_to_check_result(exit_code) ==
    IF IsSome(exit_code) THEN FromI32(Unwrap(exit_code)) ELSE "CheckError"

\* the exit codes a terminated container or process reports, if any
ExitCodes == {None} \cup {Some(c) : c \in (-1..5) \cup {99}}

\* runner.rs, lines 226-255: the exit code of the pod of the Job, absent
\* when the container has no terminated state, becomes the status of the
\* CheckResult
JobResult ==
    /\ \E exit_code \in ExitCodes :
          job' = [exit_code |-> exit_code,
                  status |-> Some(map_command_exit_code_to_check_result(exit_code))]
    /\ UNCHANGED <<schedVars, now, runnerVars, results_stream, resultVars, cluster,
                   shared_original_checks, pending, last_reconcile, api_log, main, request, groupVars>>

----------------------------------------------------------------------------
(* The two streams. An entry is "new" until a consumer of the group reads *)
(* it with XREADGROUP ">", then "pending" until it is acknowledged; it     *)
(* counts the times it was delivered.                                      *)

MaxTasks == 2

\* a payload is the JSON text of a value; serde_json::from_str gives the
\* value back, and fails on the payload that is not such a text
Json(v) == Some(v)

Garbage == None

Decodes(payload) == IsSome(payload)

FromJson(payload) == Unwrap(payload)

Script == [content : {"s1", "s2"}, python_requirements : {None, Some(<<"dep">>)}]

\* the PinglowCheck payloads of the tasks stream
TaskChecks ==
    [check_name : {"a"}, script : {None} \cup {Some(sc) : sc \in Script},
     secrets_refs : {Some(<<"sec">>)},
     telegram_channels : {<<"ch1">>},
     mute_notifications : {None}, mute_notifications_until : {None}]

StreamEntry(payload, task) ==
    [payload |-> payload, state |-> "new", task |-> task, deliveries |-> 0]

\* the processes that run init_streams when they start
Processes == {"controller", "runner", "runner2"}

\* init_streams has run: each stream has its group
InitStreams ==
    /\ tasks_stream = <<>>
    /\ results_stream = <<>>
    /\ groups = [checks |-> <<"workers">>, results |-> <<"controller">>]
    /\ init_pc = [p \in Processes |-> 2]

\* no process has started yet: no stream, no group
InitNoStreams ==
    /\ tasks_stream = <<>>
    /\ results_stream = <<>>
    /\ groups = [checks |-> <<>>, results |-> <<>>]
    /\ init_pc = [p \in Processes |-> 0]

\* XGROUP CREATE s group 0 MKSTREAM on a stream s with groups gs: the group
\* is created with every entry of the stream still to deliver; when the
\* group exists the reply is BUSYGROUP and nothing changes
XgroupCreateAgain(gs, stream, group) ==
    [groups |-> Append(gs, group),
     stream |-> [i \in DOMAIN stream |->
                    [stream[i] EXCEPT !.state = "new", !.deliveries = 0]]]

XgroupCreate(gs, stream, group) ==
    IF \E k \in DOMAIN gs : gs[k] = group
    THEN [groups |-> gs, stream |-> stream]
    ELSE [groups |-> Append(gs, group),
          stream |-> [i \in DOMAIN stream |->
                         [stream[i] EXCEPT !.state = "new", !.deliveries = 0]]]

\* init_streams, lines 13-33, run by process p on the connection it has
\* opened: its two commands, whose replies are dropped
init_streams ==
    /\ \E p \in Processes :
          /\ init_pc[p] < 2
          /\ init_pc' = [init_pc EXCEPT ![p] = @ + 1]
          /\ IF init_pc[p] = 0
             THEN LET created == XgroupCreate(groups.checks, tasks_stream, "workers") IN
                  /\ groups' = [groups EXCEPT !.checks = created.groups]
                  /\ tasks_stream' = created.stream
                  /\ UNCHANGED results_stream
             ELSE LET created == XgroupCreate(groups.results, results_stream, "controller") IN
                  /\ groups' = [groups EXCEPT !.results = created.groups]
                  /\ results_stream' = created.stream
                  /\ UNCHANGED tasks_stream
    /\ UNCHANGED <<schedVars, now, runner, execs, script_py, resultVars, cluster,
                   shared_original_checks, pending, last_reconcile, api_log, main,
                   request, job>>

\* ids of the entries XREADGROUP ">" can still deliver
NewIds(stream) == {i \in DOMAIN stream : stream[i].state = "new"}

\* XREADGROUP GROUP g c COUNT 1 STREAMS s ">" delivers the oldest new entry
Deliver(stream, id) ==
    [stream EXCEPT ![id].state = "pending", ![id].deliveries = @ + 1]

\* XACK s g id
Xack(stream, id) == [stream EXCEPT ![id].state = "acked"]

----------------------------------------------------------------------------
(* executor.rs *)

Ok(v) == [ok |-> TRUE, value |-> v]

Err(e) == [ok |-> FALSE, value |-> e]

\* what the environment does to an execution: the step that fails (the
\* file system, spawning or running python -m venv, spawning or running
\* pip, the cluster client, spawning the script, decoding its stdout), if
\* any, and the exit code and stdout of the script
ExecEnvs ==
    [fails : {"nothing", "fs", "venv_spawn", "venv", "pip_spawn", "pip", "kube",
              "exec", "utf8"},
     exit_code : {None, Some(0), Some(3)},
     stdout : {<<"t">>}]

\* execute_check: the first failing step returns its error
execute_checkUnmuted(check, env) ==
    IF ~IsSome(check.script) THEN Err("NoScriptFound")
    ELSE IF env.fails = "fs" THEN Err("io error")
    ELSE IF env.fails = "venv_spawn" THEN Err("io error")
    ELSE IF env.fails = "venv" THEN Err("Error creating venv")
    ELSE IF IsSome(Unwrap(check.script).python_requirements) /\ env.fails = "pip_spawn"
         THEN Err("io error")
    ELSE IF IsSome(Unwrap(check.script).python_requirements) /\ env.fails = "pip"
         THEN Err("Error installing dependencies")
    ELSE IF IsSome(check.secrets_refs) /\ env.fails = "kube" THEN Err("kube error")
    ELSE IF env.fails = "exec" THEN Err("io error")
    ELSE IF ~IsSome(env.exit_code) THEN Err("Cannot extract exit code")
    ELSE IF env.fails = "utf8" THEN Err("invalid utf-8")
    ELSE Ok([check_name |-> check.check_name,
             output |-> env.stdout,
             status |-> FromI32(Unwrap(env.exit_code)),
             telegram_channels |-> check.telegram_channels,
             mute_notifications |-> None,
             mute_notifications_until |-> None])

execute_check(check, env) ==
    IF ~IsSome(check.script) THEN Err("NoScriptFound")
    ELSE IF env.fails = "fs" THEN Err("io error")
    ELSE IF env.fails = "venv_spawn" THEN Err("io error")
    ELSE IF env.fails = "venv" THEN Err("Error creating venv")
    ELSE IF IsSome(Unwrap(check.script).python_requirements) /\ env.fails = "pip_spawn"
         THEN Err("io error")
    ELSE IF IsSome(Unwrap(check.script).python_requirements) /\ env.fails = "pip"
         THEN Err("Error installing dependencies")
    ELSE IF IsSome(check.secrets_refs) /\ env.fails = "kube" THEN Err("kube error")
    ELSE IF env.fails = "exec" THEN Err("io error")
    ELSE IF ~IsSome(env.exit_code) THEN Err("Cannot extract exit code")
    ELSE IF env.fails = "utf8" THEN Err("invalid utf-8")
    ELSE Ok([check_name |-> check.check_name,
             output |-> env.stdout,
             status |-> FromI32(Unwrap(env.exit_code)),
             telegram_channels |-> check.telegram_channels,
             mute_notifications |-> check.mute_notifications,
             mute_notifications_until |-> check.mute_notifications_until])

----------------------------------------------------------------------------
(* runner.rs *)

InitRunner ==
    /\ runner = [pc |-> "loop", cancelled |-> FALSE]
    /\ execs = [i \in {} |-> None]
    /\ script_py = [n \in Names |-> None]

\* an execution: where the spawned task is, the content of the script file
\* its python process ran, what execute_check returned, and the outcomes of
\* its XACK and XADD
Spawned ==
    [pc |-> "execute", ran |-> None, result |-> None, error |-> None,
     xack |-> "no", xadd |-> "no"]

\* the scheduler (enqueue_check) or anyone else appends a task entry
XaddTask ==
    /\ Len(tasks_stream) < MaxTasks
    /\ \E payload \in {Json(c) : c \in TaskChecks} \cup {Garbage} :
          tasks_stream' = Append(tasks_stream, StreamEntry(payload, Len(tasks_stream) + 1))
    /\ UNCHANGED <<schedVars, now, runner, execs, script_py, results_stream, resultVars, controlVars>>

\* the Ctrl-C listener cancels the token
CtrlC ==
    /\ runner.pc # "exited"
    /\ ~runner.cancelled
    /\ runner' = [runner EXCEPT !.cancelled = TRUE]
    /\ UNCHANGED <<schedVars, now, tasks_stream, execs, script_py, results_stream, resultVars, controlVars>>

\* lines 39-47: the shutdown test and the connection for this iteration.
\* When the token is cancelled, or the connection fails, run() returns, main
\* returns and the runtime drops the spawned executions where they are.
LoopTop ==
    /\ runner.pc = "loop"
    /\ \E conn \in {"ok", "err"} :
          runner' = [runner EXCEPT !.pc = IF runner.cancelled \/ conn = "err"
                                          THEN "exited" ELSE "fetch"]
    /\ UNCHANGED <<schedVars, now, tasks_stream, execs, script_py, results_stream, resultVars, controlVars>>

\* lines 53-57, fetch_task returned Ok(Some((id, check))): the entry is
\* delivered and decodes, the execution is spawned
FetchTask ==
    /\ runner.pc = "fetch"
    /\ NewIds(tasks_stream) # {}
    /\ LET id == MinKey(NewIds(tasks_stream)) IN
          /\ tasks_stream' = Deliver(tasks_stream, id)
          /\ execs' = IF ~Decodes(tasks_stream[id].payload)
                      THEN execs                       \* serde_json::from_str fails
                      ELSE [i \in DOMAIN execs \cup {id} |->
                               IF i = id THEN Spawned ELSE execs[i]]
    /\ runner' = [runner EXCEPT !.pc = "loop"]
    /\ UNCHANGED <<schedVars, now, script_py, results_stream, resultVars, controlVars>>

\* lines 117-125: the blocking read ends with an error (response timeout)
FetchError ==
    /\ runner.pc = "fetch"
    /\ runner' = [runner EXCEPT !.pc = "loop"]
    /\ UNCHANGED <<schedVars, now, tasks_stream, execs, script_py, results_stream, resultVars, controlVars>>

\* executor.rs lines 29-32: create_dir_all and fs::write put the content
\* of the task's script into check-<name>/script.py
ScriptWritten(check, env) == IsSome(check.script) /\ env.fails # "fs"

\* executor.rs line 89: command.output() ran the python process on the
\* script file; r is what execute_check returns
ScriptRan(r) == r.ok \/ r.value \in {"Cannot extract exit code", "invalid utf-8"}

\* lines 59-65 of the spawned task: execute_check from its first line to
\* its last, without another execution in between
Execute(id) ==
    /\ execs[id].pc = "execute"
    /\ \E env \in ExecEnvs :
          LET check == FromJson(tasks_stream[id].payload)
              r == execute_check(check, env)
              ran == IF ScriptRan(r) THEN Some(Unwrap(check.script).content) ELSE None
          IN
          /\ script_py' = IF ScriptWritten(check, env)
                          THEN [script_py EXCEPT ![check.check_name] =
                                   Some(Unwrap(check.script).content)]
                          ELSE script_py
          /\ execs' = [execs EXCEPT ![id] =
                         IF r.ok
                         THEN [@ EXCEPT !.pc = "connect", !.ran = ran, !.result = Some(r.value)]
                         ELSE [@ EXCEPT !.pc = "done", !.ran = ran, !.error = Some(r.value)]]
    /\ UNCHANGED <<schedVars, now, tasks_stream, runner, results_stream, resultVars, controlVars>>

\* execute_check up to fs::write (executor.rs lines 16-32) in an execution
\* that runs beside the others on the runtime's worker threads
WriteScript(id) ==
    /\ execs[id].pc = "execute"
    /\ \E fs \in {"nothing", "fs"} :
          LET check == FromJson(tasks_stream[id].payload)
              env == [fails |-> fs, exit_code |-> None, stdout |-> <<"t">>]
          IN
          IF ScriptWritten(check, env)
          THEN /\ script_py' = [script_py EXCEPT ![check.check_name] =
                                   Some(Unwrap(check.script).content)]
               /\ execs' = [execs EXCEPT ![id].pc = "written"]
          ELSE /\ script_py' = script_py
               /\ execs' = [execs EXCEPT ![id].pc = "done",
                                         ![id].error = Some(execute_check(check, env).value)]
    /\ UNCHANGED <<schedVars, now, tasks_stream, runner, results_stream, resultVars, controlVars>>

\* the rest of execute_check (lines 34-111): the venv, pip, and the python
\* process started on the path check-<name>/script.py, whose content is
\* what the file holds then
RunScript(id) ==
    /\ execs[id].pc = "written"
    /\ \E env \in {e \in ExecEnvs : e.fails # "fs"} :
          LET check == FromJson(tasks_stream[id].payload)
              r == execute_check(check, env)
              ran == IF ScriptRan(r) THEN script_py[check.check_name] ELSE None
          IN
          execs' = [execs EXCEPT ![id] =
                       IF r.ok
                       THEN [@ EXCEPT !.pc = "connect", !.ran = ran, !.result = Some(r.value)]
                       ELSE [@ EXCEPT !.pc = "done", !.ran = ran, !.error = Some(r.value)]]
    /\ UNCHANGED <<schedVars, now, tasks_stream, runner, script_py, results_stream, resultVars, controlVars>>

\* lines 67-76
ConnectSkipAck(id) ==
    /\ execs[id].pc = "connect"
    /\ \E conn \in {"ok", "err"} :
          execs' = [execs EXCEPT ![id].pc = IF conn = "ok" THEN "publish" ELSE "done"]
    /\ UNCHANGED <<schedVars, now, tasks_stream, runner, script_py, results_stream, resultVars, controlVars>>

Connect(id) ==
    /\ execs[id].pc = "connect"
    /\ \E conn \in {"ok", "err"} :
          execs' = [execs EXCEPT ![id].pc = IF conn = "ok" THEN "ack" ELSE "done"]
    /\ UNCHANGED <<schedVars, now, tasks_stream, runner, script_py, results_stream, resultVars, controlVars>>

\* lines 78-87: XACK pinglow:checks workers id; an error is only logged
AckTask(id) ==
    /\ execs[id].pc = "ack"
    /\ \E xack \in {"ok", "err"} :
          /\ tasks_stream' = IF xack = "ok" THEN Xack(tasks_stream, id) ELSE tasks_stream
          /\ execs' = [execs EXCEPT ![id].pc = "publish", ![id].xack = xack]
    /\ UNCHANGED <<schedVars, now, runner, script_py, results_stream, resultVars, controlVars>>

\* lines 89-110: XADD pinglow:results * payload; an error is only logged
PublishResult(id) ==
    /\ execs[id].pc = "publish"
    /\ \E xadd \in {"ok", "err"} :
          /\ results_stream' = IF xadd = "ok"
                               THEN Append(results_stream,
                                           StreamEntry(Json(Unwrap(execs[id].result)), id))
                               ELSE results_stream
          /\ execs' = [execs EXCEPT ![id].pc = "done", ![id].xadd = xadd]
    /\ UNCHANGED <<schedVars, now, tasks_stream, runner, script_py, resultVars, controlVars>>

ExecutionStep ==
    /\ runner.pc # "exited"
    /\ \E id \in DOMAIN execs :
          Execute(id) \/ Connect(id) \/ AckTask(id) \/ PublishResult(id)

\* a step of a spawned execution, with execute_check in two steps
ScriptExecutionStep ==
    /\ runner.pc # "exited"
    /\ \E id \in DOMAIN execs :
          WriteScript(id) \/ RunScript(id) \/ Connect(id) \/ AckTask(id) \/ PublishResult(id)

----------------------------------------------------------------------------
(* check.rs: CheckResult *)

\* CheckResultStatus::to_number
to_number(status) ==
    CASE status = "Ok" -> 0
      [] status = "Warning" -> 1
      [] status = "Critical" -> 2
      [] status = "CheckError" -> 3
      [] status = "Pending" -> 4

\* str::split_once: the text before and after the first occurrence of ch
SplitOnce(str, ch) ==
    IF \E i \in 1..Len(str) : str[i] = ch
    THEN LET i == MinKey({j \in 1..Len(str) : str[j] = ch})
         IN  Some([before |-> SubSeq(str, 1, i - 1), after |-> SubSeq(str, i + 1, Len(str))])
    ELSE None

\* str::split: the segments between the occurrences of ch, at least one
RECURSIVE Split(_, _)
Split(str, ch) ==
    LET cut == SplitOnce(str, ch) IN
    IF IsSome(cut) THEN <<Unwrap(cut).before>> \o Split(Unwrap(cut).after, ch)
    ELSE <<str>>

\* str::trim
RECURSIVE Trim(_)
Trim(str) ==
    IF str # <<>> /\ Head(str) = " " THEN Trim(Tail(str))
    ELSE IF str # <<>> /\ str[Len(str)] = " " THEN Trim(SubSeq(str, 1, Len(str) - 1))
    ELSE str

Digits == {"0", "1", "2"}

\* str::parse::<f32> on the texts of the model: a digit parses to its value
ParseF32(str) ==
    IF Len(str) = 1 /\ str[1] \in Digits
    THEN Some(CASE str[1] = "0" -> 0 [] str[1] = "1" -> 1 [] str[1] = "2" -> 2)
    ELSE None

\* CheckResult::get_output
get_output(result) ==
    LET cut == SplitOnce(result.output, "|") IN
    IF IsSome(cut) THEN Unwrap(cut).before ELSE result.output

\* the filter_map of get_perf_data over the comma separated segments
RECURSIVE PerfPairs(_)
PerfPairs(segments) ==
    IF segments = <<>> THEN <<>>
    ELSE LET pair == SplitOnce(Head(segments), "=") IN
         (IF IsSome(pair)
          THEN LET value == ParseF32(Trim(Unwrap(pair).after))
               IN  <<[perf_key |-> Trim(Unwrap(pair).before),
                      perf_value |-> IF IsSome(value) THEN Unwrap(value) ELSE 0]>>
          ELSE <<>>) \o PerfPairs(Tail(segments))

\* CheckResult::get_perf_data
get_perf_dataWholeOutput(result) ==
    PerfPairs(Split(result.output, ","))

get_perf_data(result) ==
    LET cut == SplitOnce(result.output, "|")
        perf == IF IsSome(cut) THEN Unwrap(cut).after ELSE <<>>
    IN  PerfPairs(Split(perf, ","))

\* CheckResult::write_to_db for the result of stream entry (or request) of:
\* the INSERT into check_result, then one INSERT per perf pair; the
\* fail_at-th of these statements fails (none when fail_at is 0) and the
\* function returns the error without running the remaining ones.
write_to_dbAlwaysOk(result, of, fail_at) ==
    [ok |-> TRUE,
     check_result |-> IF fail_at = 1 THEN check_result
                      ELSE Append(check_result,
                                  [of |-> of, check_name |-> result.check_name,
                                   status |-> to_number(result.status),
                                   output |-> get_output(result)]),
     perf_data |-> perf_data]

write_to_db(result, of, fail_at) ==
    LET perf_data_list == get_perf_data(result)
        done == IF fail_at = 0 THEN Len(perf_data_list) + 1 ELSE fail_at - 1
    IN  [ok |-> fail_at = 0 \/ fail_at > Len(perf_data_list) + 1,
         check_result |->
            IF done >= 1
            THEN Append(check_result,
                        [of |-> of, check_name |-> result.check_name,
                         status |-> to_number(result.status),
                         output |-> get_output(result)])
            ELSE check_result,
         perf_data |->
            perf_data \o [k \in 1..(IF done >= 1 THEN Min(done - 1, Len(perf_data_list)) ELSE 0) |->
                             [of |-> of, check_name |-> result.check_name,
                              perf_key |-> perf_data_list[k].perf_key,
                              perf_value |-> perf_data_list[k].perf_value]]]

----------------------------------------------------------------------------
(* lib.rs: process_check_result *)

\* lines 155-166: the condition under which the channels are posted to
ShouldNotifyStrictlyAfter(result, utc_now) ==
    /\ result.status # "Ok"
    /\ result.status # "Pending"
    /\ IF result.mute_notifications = Some(TRUE)
       THEN IF IsSome(result.mute_notifications_until)
            THEN Unwrap(result.mute_notifications_until) < utc_now
            ELSE FALSE
       ELSE TRUE

ShouldNotify(result, utc_now) ==
    /\ result.status # "Ok"
    /\ result.status # "Pending"
    /\ IF result.mute_notifications = Some(TRUE)
       THEN IF IsSome(result.mute_notifications_until)
            THEN Unwrap(result.mute_notifications_until) <= utc_now
            ELSE FALSE
       ELSE TRUE

\* lines 167-185: one POST per carried channel; an error is only logged
Posts(result, of, delivered) ==
    [k \in 1..Len(result.telegram_channels) |->
        [of |-> of, channel |-> result.telegram_channels[k], delivered |-> delivered]]

\* process_check_result: the database write, then the notifications
process_check_resultPostError(result, of, fail_at, delivered) ==
    LET written == write_to_db(result, of, fail_at) IN
    [ok |-> written.ok /\ (ShouldNotify(result, now) /\ result.telegram_channels # <<>>
                               => delivered),
     check_result |-> written.check_result,
     perf_data |-> written.perf_data,
     notifications |->
        IF written.ok /\ ShouldNotify(result, now)
        THEN notifications \o Posts(result, of, delivered)
        ELSE notifications]

process_check_result(result, of, fail_at, delivered) ==
    LET written == write_to_db(result, of, fail_at) IN
    [ok |-> written.ok,
     check_result |-> written.check_result,
     perf_data |-> written.perf_data,
     notifications |->
        IF written.ok /\ ShouldNotify(result, now)
        THEN notifications \o Posts(result, of, delivered)
        ELSE notifications]

----------------------------------------------------------------------------
(* results.rs *)

MaxResults == 2

Outputs == {<<"t">>, <<"t", "|", "k", "=", "1">>}

\* the CheckResult records a result entry can carry
CheckResults ==
    [check_name : {"a"}, output : Outputs, status : CheckResultStatus,
     telegram_channels : {<<>>, <<"ch1">>},
     mute_notifications : {None, Some(TRUE), Some(FALSE)},
     mute_notifications_until : {None, Some(1)}]

\* the results appended to the stream while the consumer runs
StreamedResults ==
    {r \in CheckResults :
        /\ r.status \in {"Ok", "Critical"}
        /\ r.telegram_channels = <<"ch1">>
        /\ r.mute_notifications = None /\ r.mute_notifications_until = None}

InitResults ==
    /\ consumer = [pc |-> "loop", current |-> None]
    /\ check_result = <<>>
    /\ perf_data = <<>>
    /\ notifications = <<>>

\* a runner (or a replay) appends a result entry
XaddResult ==
    /\ Len(results_stream) < MaxResults
    /\ \E payload \in {Json(r) : r \in StreamedResults} \cup {Garbage} :
          results_stream' = Append(results_stream, StreamEntry(payload, 0))
    /\ UNCHANGED <<schedVars, now, runnerVars, resultVars, controlVars>>

\* lines 25-28: the connection of this iteration; expect() panics
ConsumerConnect ==
    /\ consumer.pc = "loop"
    /\ \E conn \in {"ok", "err"} :
          consumer' = [consumer EXCEPT !.pc = IF conn = "ok" THEN "select" ELSE "panicked"]
    /\ UNCHANGED <<schedVars, now, runnerVars, results_stream, check_result, perf_data, notifications, controlVars>>

\* lines 31-34: a signal arm of the select completes, the loop goes on
ConsumerSignal ==
    /\ consumer.pc = "select"
    /\ consumer' = [consumer EXCEPT !.pc = "loop"]
    /\ UNCHANGED <<schedVars, now, runnerVars, results_stream, check_result, perf_data, notifications, controlVars>>

\* wait_for_result returned Ok(Some((id, result))), or an error after the
\* entry was delivered, because its payload does not decode (lines 54-63)
WaitForResult ==
    /\ consumer.pc = "select"
    /\ NewIds(results_stream) # {}
    /\ LET id == MinKey(NewIds(results_stream)) IN
          /\ results_stream' = Deliver(results_stream, id)
          /\ consumer' = IF Decodes(results_stream[id].payload)
                         THEN [pc |-> "process", current |-> Some(id)]
                         ELSE [pc |-> "loop", current |-> None]
    /\ UNCHANGED <<schedVars, now, runnerVars, check_result, perf_data, notifications, controlVars>>

\* wait_for_result returned Ok(None) after the block timeout, or a redis
\* error (lines 50-63): sleep and loop
WaitNothing ==
    /\ consumer.pc = "select"
    /\ consumer' = [consumer EXCEPT !.pc = "loop"]
    /\ UNCHANGED <<schedVars, now, runnerVars, results_stream, check_result, perf_data, notifications, controlVars>>

\* line 40: process_check_result(result, ..).await?
ProcessDelivered ==
    /\ consumer.pc = "process"
    /\ LET id == Unwrap(consumer.current)
           result == FromJson(results_stream[id].payload)
       IN  \E fail_at \in 0..(Len(get_perf_data(result)) + 1), delivered \in BOOLEAN :
              LET p == process_check_result(result, id, fail_at, delivered) IN
              /\ check_result' = p.check_result
              /\ perf_data' = p.perf_data
              /\ notifications' = p.notifications
              /\ consumer' = IF p.ok THEN [consumer EXCEPT !.pc = "ack"]
                             ELSE [pc |-> "returned", current |-> None]
    /\ UNCHANGED <<schedVars, now, runnerVars, results_stream, controlVars>>

\* lines 42-48: XACK pinglow:results controller id, with ?
AckResult ==
    /\ consumer.pc = "ack"
    /\ \E xack \in {"ok", "err"} :
          IF xack = "ok"
          THEN /\ results_stream' = Xack(results_stream, Unwrap(consumer.current))
               /\ consumer' = [pc |-> "loop", current |-> None]
          ELSE /\ results_stream' = results_stream
               /\ consumer' = [pc |-> "returned", current |-> None]
    /\ UNCHANGED <<schedVars, now, runnerVars, check_result, perf_data, notifications, controlVars>>

----------------------------------------------------------------------------
(* The upstream cluster: the Check, Script, TelegramChannel and Secret     *)
(* objects the controller watches                                          *)

\* the names of the Check objects created upstream
CheckNames == {"a"}

ScriptNames == {"s1"}

ChannelNames == {"ch1"}

SecretNames == {"sec", "tok"}

\* TelegramChannelSpec::botTokenRef of the channels
botTokenRef(channel) == "tok"

\* a Secret is absent or present; the one a channel refers to can be present
\* without a botToken key
SecretStates(secret_name) ==
    IF secret_name = "tok" THEN {"absent", "nokey", "present"} ELSE {"absent", "present"}

\* CheckSpec of an active check run every second
CheckSpec(scriptRef, secretRefs, telegramChannelRefs) ==
    [scriptRef |-> scriptRef, interval |-> Some(1), secretRefs |-> secretRefs,
     telegramChannelRefs |-> telegramChannelRefs,
     muteNotifications |-> None, muteNotificationsUntil |-> None, passive |-> FALSE]

\* the specs applied upstream
CheckSpecs ==
    {CheckSpec(Some("s1"), None, None),
     CheckSpec(Some("s1"), Some(<<"sec">>), None),
     CheckSpec(Some("s1"), None, Some(<<"ch1">>))}

\* a Check object: metadata.name, metadata.deletion_timestamp, spec
Check(name, spec) == [name |-> name, deletion_timestamp |-> None, spec |-> spec]

\* no check was run as a Job yet
NoJob == [exit_code |-> None, status |-> None]

\* no request was answered yet
NoRequest ==
    [id |-> 0, endpoint |-> "none", keys |-> <<>>, target_check |-> "none",
     until |-> None, status |-> 0, body |-> None]

\* main past load_checks, its tasks spawned
Started == [pc |-> "running", loaded |-> {}, error |-> None]

InitControl ==
    /\ cluster = [checks |-> [n \in {} |-> None],
                  scripts |-> ScriptNames,
                  channels |-> ChannelNames,
                  secrets |-> [x \in SecretNames |-> "present"]]
    /\ shared_original_checks = [n \in {} |-> None]
    /\ pending = {}
    /\ last_reconcile = [n \in Names |-> "none"]
    /\ api_log = [n \in Names |-> "none"]
    /\ main = Started
    /\ request = NoRequest
    /\ job = NoJob

----------------------------------------------------------------------------
(* lib.rs: load_single_runnable_check *)

\* fetch_secrets: the secrets of secret_names whose data are merged into the
\* map; a secret the API does not return is passed over (if let Ok(secret))
fetch_secrets(cl, secret_names) ==
    {secret_names[k] : k \in {j \in DOMAIN secret_names :
                                 cl.secrets[secret_names[j]] # "absent"}}

\* load_single_runnable_check for the objects of cluster cl; fetch is the
\* outcome of Client::try_default and of from_utf8 in fetch_secrets
load_single_runnable_checkLenient(check, cl, fetch) ==
    Ok([check_name |-> check.name,
        passive |-> check.spec.passive,
        interval |-> check.spec.interval,
        secrets |-> None,
        telegram_channels |-> <<>>,
        mute_notifications |-> check.spec.muteNotifications,
        mute_notifications_until |-> check.spec.muteNotificationsUntil])

load_single_runnable_check(check, cl, fetch) ==
    LET spec == check.spec
        channels == IF IsSome(spec.telegramChannelRefs)
                    THEN Unwrap(spec.telegramChannelRefs) ELSE <<>>
        failing == {k \in DOMAIN channels :
                       \/ channels[k] \notin cl.channels
                       \/ cl.secrets[botTokenRef(channels[k])] # "present"}
    IN  IF IsSome(spec.scriptRef) /\ Unwrap(spec.scriptRef) \notin cl.scripts
        THEN Err("ScriptNotFound")
        ELSE IF failing # {}
        THEN (IF channels[MinKey(failing)] \notin cl.channels
              THEN Err("TelegramChannelNotFound")
              ELSE Err("SecretNotFound"))
        ELSE IF IsSome(spec.secretRefs) /\ fetch = "err"
        THEN Err("GeneralError")
        ELSE Ok([check_name |-> check.name,
                 passive |-> spec.passive,
                 interval |-> spec.interval,
                 secrets |-> IF IsSome(spec.secretRefs)
                             THEN Some(fetch_secrets(cl, Unwrap(spec.secretRefs)))
                             ELSE None,
                 telegram_channels |-> channels,
                 mute_notifications |-> spec.muteNotifications,
                 mute_notifications_until |-> spec.muteNotificationsUntil])

----------------------------------------------------------------------------
(* main.rs: the startup of the controller *)

\* mpsc::channel::<RunnableCheckEvent>(100), main line 87
ChannelCapacity == 100

\* the Check objects found upstream at startup
StartupChecks ==
    UNION {[D -> CheckSpecs] : D \in SUBSET Names}

\* main before load_checks: the cluster holds any checks, and any of the
\* objects they refer to may be missing
InitStartup ==
    /\ \E specs \in StartupChecks, scripts \in SUBSET ScriptNames,
          channels \in SUBSET ChannelNames,
          secrets \in {f \in [SecretNames -> {"absent", "nokey", "present"}] :
                          \A x \in SecretNames : f[x] \in SecretStates(x)} :
          cluster = [checks |-> [n \in DOMAIN specs |-> Check(n, specs[n])],
                     scripts |-> scripts, channels |-> channels, secrets |-> secrets]
    /\ shared_original_checks = [n \in {} |-> None]
    /\ pending = {}
    /\ last_reconcile = [n \in Names |-> "none"]
    /\ api_log = [n \in Names |-> "none"]
    /\ main = [pc |-> "load_checks", loaded |-> {}, error |-> None]
    /\ request = NoRequest
    /\ job = NoJob

\* load_checks, lines 166-184: one turn of the loop over the listed checks.
\* The ? of line 178 returns the error of load_single_runnable_check, and
\* the ? of main line 90 returns it from main. The receiver of the channel
\* is handed to scheduler_loop after load_checks (main line 101), so nothing
\* is received meanwhile and send waits once the channel is full.
LoadCheck ==
    /\ main.pc = "load_checks"
    /\ Len(event_rx) < ChannelCapacity
    /\ \E n \in DOMAIN cluster.checks \ main.loaded, fetch \in {"ok", "err"} :
          LET check == cluster.checks[n]
              runnable_check == load_single_runnable_check(check, cluster, fetch)
          IN  /\ shared_original_checks' = ModelInsert(shared_original_checks, n, check)
              /\ IF runnable_check.ok
                 THEN /\ event_rx' = Append(event_rx, AddOrUpdate(runnable_check.value))
                      /\ main' = [main EXCEPT !.loaded = @ \cup {n}]
                 ELSE /\ main' = [main EXCEPT !.pc = "failed",
                                              !.error = Some(runnable_check.value)]
                      /\ UNCHANGED event_rx
    /\ UNCHANGED <<shared_checks, queue, scheduler, sched_log, now, runnerVars,
                   results_stream, resultVars, cluster, pending, last_reconcile, api_log, request, job, groupVars>>

\* load_checks returns Ok(()), lines 186-188; main spawns watch_resources,
\* scheduler_loop, results::run and the API (main lines 93-116)
LoadChecksOk ==
    /\ main.pc = "load_checks"
    /\ main.loaded = DOMAIN cluster.checks
    /\ main' = [main EXCEPT !.pc = "running"]
    /\ UNCHANGED <<schedVars, now, runnerVars, results_stream, resultVars,
                   cluster, shared_original_checks, pending, last_reconcile, api_log, request, job, groupVars>>

MaxDeclared == 101

\* main before load_checks with any number of checks declared, all of them
\* active and referring to objects that exist; the checks are named by
\* their place in the list checks.list returns
InitDeclared ==
    /\ InitSched /\ InitRunner /\ InitStreams /\ InitResults
    /\ \E declared \in 0..MaxDeclared :
          cluster = [checks |-> [n \in 1..declared |-> Check(n, CheckSpec(Some("s1"), None, None))],
                     scripts |-> ScriptNames,
                     channels |-> ChannelNames,
                     secrets |-> [x \in SecretNames |-> "present"]]
    /\ shared_original_checks = [n \in {} |-> None]
    /\ pending = {}
    /\ last_reconcile = [n \in Names |-> "none"]
    /\ api_log = [n \in Names |-> "none"]
    /\ main = [pc |-> "load_checks", loaded |-> {}, error |-> None]
    /\ request = NoRequest
    /\ job = NoJob

\* load_checks, lines 166-184: the turn of the loop for the next check of
\* the list; event_rx.send(..).await completes when the channel has room
LoadListedCheck ==
    /\ main.pc = "load_checks"
    /\ main.loaded # DOMAIN cluster.checks
    /\ Len(event_rx) < ChannelCapacity
    /\ LET n == MinKey(DOMAIN cluster.checks \ main.loaded)
           check == cluster.checks[n]
           runnable_check == load_single_runnable_check(check, cluster, "ok")
       IN  /\ shared_original_checks' = ModelInsert(shared_original_checks, n, check)
           /\ IF runnable_check.ok
              THEN /\ event_rx' = Append(event_rx, AddOrUpdate(runnable_check.value))
                   /\ main' = [main EXCEPT !.loaded = @ \cup {n}]
              ELSE /\ main' = [main EXCEPT !.pc = "failed",
                                           !.error = Some(runnable_check.value)]
                   /\ UNCHANGED event_rx
    /\ UNCHANGED <<shared_checks, queue, scheduler, sched_log, now, runnerVars,
                   results_stream, resultVars, cluster, pending, last_reconcile, api_log, request, job, groupVars>>

\* the scheduler task, spawned after load_checks, handles an event
StartedHandleCheckEvent ==
    /\ main.pc = "running"
    /\ HandleCheckEvent

----------------------------------------------------------------------------
(* controller.rs *)

\* map_script_to_checks: the checks of the raw model whose scriptRef matches
map_script_to_checks(script_name, shared) ==
    {n \in DOMAIN shared : shared[n].spec.scriptRef = Some(script_name)}

\* map_secret_to_checks: the checks of the raw model listing the secret in
\* secretRefs
map_secret_to_checks(secret_name, shared) ==
    {n \in DOMAIN shared :
        /\ IsSome(shared[n].spec.secretRefs)
        /\ \E k \in DOMAIN Unwrap(shared[n].spec.secretRefs) :
              Unwrap(shared[n].spec.secretRefs)[k] = secret_name}

\* map_channel_to_checks: the checks listing the channel in telegramChannelRefs
map_channel_to_checks(channel_name, shared) ==
    {n \in DOMAIN shared :
        /\ IsSome(shared[n].spec.telegramChannelRefs)
        /\ \E k \in DOMAIN Unwrap(shared[n].spec.telegramChannelRefs) :
              Unwrap(shared[n].spec.telegramChannelRefs)[k] = channel_name}

\* a Check is created upstream; its watch event asks for its reconcile
CreateCheck ==
    /\ \E n \in CheckNames \ DOMAIN cluster.checks, spec \in CheckSpecs :
          /\ cluster' = [cluster EXCEPT !.checks = ModelInsert(@, n, Check(n, spec))]
          /\ pending' = pending \cup {n}
    /\ UNCHANGED <<schedVars, now, runnerVars, results_stream, resultVars,
                   shared_original_checks, last_reconcile, api_log, main, request, job, groupVars>>

\* a Check is deleted upstream: the object is gone at once, or, when it
\* has finalizers, it first carries a deletion timestamp
DeleteCheck ==
    /\ \E n \in DOMAIN cluster.checks, gone \in BOOLEAN :
          /\ ~IsSome(cluster.checks[n].deletion_timestamp) \/ gone
          /\ cluster' = [cluster EXCEPT !.checks =
                           IF gone THEN ModelRemove(@, n)
                           ELSE [@ EXCEPT ![n].deletion_timestamp = Some("t")]]
          /\ pending' = pending \cup {n}
    /\ UNCHANGED <<schedVars, now, runnerVars, results_stream, resultVars,
                   shared_original_checks, last_reconcile, api_log, main, request, job, groupVars>>

\* a Script appears or disappears upstream
ScriptEvent ==
    /\ \E x \in ScriptNames :
          /\ cluster' = [cluster EXCEPT !.scripts =
                           IF x \in @ THEN @ \ {x} ELSE @ \cup {x}]
          /\ pending' = pending \cup map_script_to_checks(x, shared_original_checks)
    /\ UNCHANGED <<schedVars, now, runnerVars, results_stream, resultVars,
                   shared_original_checks, last_reconcile, api_log, main, request, job, groupVars>>

\* a TelegramChannel appears or disappears upstream
ChannelEvent ==
    /\ \E x \in ChannelNames :
          /\ cluster' = [cluster EXCEPT !.channels =
                           IF x \in @ THEN @ \ {x} ELSE @ \cup {x}]
          /\ pending' = pending \cup map_channel_to_checks(x, shared_original_checks)
    /\ UNCHANGED <<schedVars, now, runnerVars, results_stream, resultVars,
                   shared_original_checks, last_reconcile, api_log, main, request, job, groupVars>>

\* a Secret appears, changes or disappears upstream
SecretEvent ==
    /\ \E x \in SecretNames : \E state \in SecretStates(x) :
          /\ cluster.secrets[x] # state
          /\ cluster' = [cluster EXCEPT !.secrets[x] = state]
          /\ pending' = pending \cup map_secret_to_checks(x, shared_original_checks)
    /\ UNCHANGED <<schedVars, now, runnerVars, results_stream, resultVars,
                   shared_original_checks, last_reconcile, api_log, main, request, job, groupVars>>

\* The controller runtime takes a request and, when the object is in its
\* store, calls reconcile (lines 79-109) with it. An Err is handed to
\* error_policy, which asks for the request again after 60 s.
Reconcile ==
    /\ \E n \in pending, fetch \in {"ok", "err"} :
          IF n \notin DOMAIN cluster.checks
          THEN /\ last_reconcile' = [last_reconcile EXCEPT ![n] = "ObjectNotFound"]
               /\ pending' = pending \ {n}
               /\ UNCHANGED <<shared_original_checks, event_rx>>
          ELSE LET check == cluster.checks[n] IN
               IF IsSome(check.deletion_timestamp)
               THEN /\ shared_original_checks' = ModelRemove(shared_original_checks, n)
                    /\ IF scheduler = "running"
                       THEN /\ Len(event_rx) < MaxChan
                            /\ event_rx' = Append(event_rx, Remove(n))
                            /\ last_reconcile' = [last_reconcile EXCEPT ![n] = "ok"]
                            /\ pending' = pending \ {n}
                       ELSE /\ last_reconcile' = [last_reconcile EXCEPT ![n] = "SendError"]
                            /\ UNCHANGED <<event_rx, pending>>
               ELSE LET runnable_check == load_single_runnable_check(check, cluster, fetch) IN
                    IF ~runnable_check.ok
                    THEN /\ last_reconcile' = [last_reconcile EXCEPT ![n] = runnable_check.value]
                         /\ UNCHANGED <<shared_original_checks, event_rx, pending>>
                    ELSE /\ shared_original_checks' = ModelInsert(shared_original_checks, n, check)
                         /\ IF scheduler = "running"
                            THEN /\ Len(event_rx) < MaxChan
                                 /\ event_rx' = Append(event_rx, AddOrUpdate(runnable_check.value))
                            ELSE UNCHANGED event_rx
                         /\ last_reconcile' = [last_reconcile EXCEPT ![n] = "ok"]
                         /\ pending' = pending \ {n}
    /\ UNCHANGED <<shared_checks, queue, scheduler, sched_log, now, runnerVars,
                   results_stream, resultVars, cluster, api_log, main, request, job, groupVars>>

----------------------------------------------------------------------------
(* api.rs: the mute routes of the admin facade *)

\* DateTime::to_rfc3339 and DateTime::parse_from_rfc3339 on the texts of
\* the model: a time is written as the letter T followed by its value
to_rfc3339(t) == <<"T", t>>

parse_from_rfc3339(str) ==
    IF Len(str) = 2 /\ str[1] = "T" THEN Ok(str[2]) ELSE Err("ParseError")

\* the values of the until query parameter
UntilParams == {None, Some(<<"x">>), Some(to_rfc3339(MaxTime))}

MaxRequests == 2

\* PinglowConfig::api_key
api_key == "k"

\* the values of the x-api-key headers of a request: none, the configured
\* key, another value, two headers
RequestKeys == {<<>>, <<"k">>, <<"x">>, <<"k", "k">>, <<"x", "k">>}

\* ApiKey::from_request, lines 68-88
from_requestFirstHeader(keys) ==
    IF keys = <<>> THEN Err("Unauthorized")
    ELSE IF api_key = keys[1] THEN Ok("ApiKey") ELSE Err("Unauthorized")

from_request(keys) ==
    IF Len(keys) # 1 THEN Err("Unauthorized")
    ELSE IF api_key = keys[1] THEN Ok("ApiKey") ELSE Err("Unauthorized")

\* the answer to the request being handled (until: the until parameter
\* mute_check was called with)
Response(endpoint, keys, target_check, status, body) ==
    [id |-> request.id + 1, endpoint |-> endpoint, keys |-> keys,
     target_check |-> target_check, until |-> None, status |-> status, body |-> body]

\* the request guard _key: ApiKey of a route fails: the handler is not
\* called and the answer is 401
Unauthorized(endpoint, keys, target_check) ==
    /\ ~from_request(keys).ok
    /\ request' = Response(endpoint, keys, target_check, 401, None)
    /\ UNCHANGED <<schedVars, now, runnerVars, results_stream, resultVars, cluster,
                   shared_original_checks, pending, last_reconcile, api_log, main, job, groupVars>>

\* SimpleCheckDto::from
SimpleCheckDto(check) ==
    [check_name |-> check.check_name, passive |-> check.passive, interval |-> check.interval]

\* GET /checks, lines 128-139
get_checks ==
    /\ request.id < MaxRequests
    /\ \E keys \in RequestKeys :
          \/ Unauthorized("get_checks", keys, "none")
          \/ /\ from_request(keys).ok
             /\ request' = Response("get_checks", keys, "none", 200,
                                    Some({SimpleCheckDto(shared_checks[n]) :
                                             n \in DOMAIN shared_checks}))
             /\ UNCHANGED <<schedVars, now, runnerVars, results_stream, resultVars, cluster,
                            shared_original_checks, pending, last_reconcile, api_log, main, job, groupVars>>

\* order by timestamp desc limit 1
MaxKey(S) == CHOOSE k \in S : \A j \in S : j <= k

\* GET /check-status/<target_check>, lines 151-190: 404 when the model has
\* no such check or the query fails; the row read is the one with the
\* latest timestamp, which for rows written in order is the last one
get_check_status ==
    /\ request.id < MaxRequests
    /\ \E keys \in RequestKeys, target_check \in Names, db \in {"ok", "err"} :
          \/ Unauthorized("get_check_status", keys, target_check)
          \/ /\ from_request(keys).ok
             /\ LET rows == {k \in DOMAIN check_result :
                                check_result[k].check_name = target_check}
                IN  request' =
                       IF target_check \notin DOMAIN shared_checks \/ db = "err"
                       THEN Response("get_check_status", keys, target_check, 404, None)
                       ELSE Response("get_check_status", keys, target_check, 200,
                               Some([check_name |-> target_check,
                                     passive |-> shared_checks[target_check].passive,
                                     status |-> IF rows = {} THEN "Pending"
                                                ELSE FromI32(check_result[MaxKey(rows)].status),
                                     notifications_muted |->
                                         shared_checks[target_check].mute_notifications,
                                     notifications_muted_until |->
                                         shared_checks[target_check].mute_notifications_until]))
             /\ UNCHANGED <<schedVars, now, runnerVars, results_stream, resultVars, cluster,
                            shared_original_checks, pending, last_reconcile, api_log, main, job, groupVars>>

\* GET /performance-data/<target_check>, lines 208-248
get_performance_data ==
    /\ request.id < MaxRequests
    /\ \E keys \in RequestKeys, target_check \in Names, db \in {"ok", "err"} :
          \/ Unauthorized("get_performance_data", keys, target_check)
          \/ /\ from_request(keys).ok
             /\ request' =
                   IF target_check \notin DOMAIN shared_checks \/ db = "err"
                   THEN Response("get_performance_data", keys, target_check, 404, None)
                   ELSE Response("get_performance_data", keys, target_check, 200,
                           Some({[perf_key |-> perf_data[k].perf_key,
                                  perf_value |-> perf_data[k].perf_value] :
                                    k \in {j \in DOMAIN perf_data :
                                              perf_data[j].check_name = target_check}}))
             /\ UNCHANGED <<schedVars, now, runnerVars, results_stream, resultVars, cluster,
                            shared_original_checks, pending, last_reconcile, api_log, main, job, groupVars>>

\* PUT /check/<target_check>/mute?<until>, lines 261-347. The handler holds
\* the write lock of the model from its first line to its last. It answers
\* 404 when the model has no such check, then 400 when until does not parse,
\* then 500 when the cluster client or the patch fails (kube, or no such
\* Check upstream), and leaves everything as it was; otherwise the Check is
\* patched upstream (a merge patch: until is only set when given), which the
\* watcher sees, and the model entry is replaced by a copy with the mute
\* fields set.
mute_checkStatus(target_check, until, kube) ==
    IF target_check \notin DOMAIN shared_checks THEN 404
    ELSE IF IsSome(until) /\ ~parse_from_rfc3339(Unwrap(until)).ok THEN 400
    ELSE IF kube = "err" \/ target_check \notin DOMAIN cluster.checks THEN 500
    ELSE 200

mute_checkWriteFirst ==
    /\ request.id < MaxRequests
    /\ \E keys \in RequestKeys, target_check \in CheckNames, until \in UntilParams,
          kube \in {"ok", "err"} :
          \/ Unauthorized("mute_check", keys, target_check)
          \/ /\ from_request(keys).ok
             /\ LET status == mute_checkStatus(target_check, until, kube)
                    until_date_time ==
                       IF IsSome(until) THEN Some(parse_from_rfc3339(Unwrap(until)).value)
                       ELSE None
                IN  /\ request' = [Response("mute_check", keys, target_check, status, None)
                                      EXCEPT !.until = until]
                    /\ IF status \in {200, 500}
                       THEN shared_checks' = [shared_checks EXCEPT
                                  ![target_check].mute_notifications = Some(TRUE),
                                  ![target_check].mute_notifications_until =
                                      IF IsSome(until_date_time) THEN until_date_time ELSE @]
                       ELSE UNCHANGED shared_checks
                    /\ IF status = 200
                       THEN /\ cluster' = [cluster EXCEPT
                                  !.checks[target_check].spec.muteNotifications = Some(TRUE),
                                  !.checks[target_check].spec.muteNotificationsUntil =
                                      IF IsSome(until_date_time) THEN until_date_time ELSE @]
                            /\ pending' = pending \cup {target_check}
                            /\ api_log' = [api_log EXCEPT ![target_check] = "muted"]
                       ELSE UNCHANGED <<cluster, pending, api_log>>
             /\ UNCHANGED <<queue, event_rx, scheduler, sched_log, now, runnerVars,
                            results_stream, resultVars, shared_original_checks,
                            last_reconcile, main, job, groupVars>>

mute_check ==
    /\ request.id < MaxRequests
    /\ \E keys \in RequestKeys, target_check \in CheckNames, until \in UntilParams,
          kube \in {"ok", "err"} :
          \/ Unauthorized("mute_check", keys, target_check)
          \/ /\ from_request(keys).ok
             /\ LET status == mute_checkStatus(target_check, until, kube)
                    until_date_time ==
                       IF IsSome(until) THEN Some(parse_from_rfc3339(Unwrap(until)).value)
                       ELSE None
                IN  /\ request' = [Response("mute_check", keys, target_check, status, None)
                                      EXCEPT !.until = until]
                    /\ IF status = 200
                       THEN /\ cluster' = [cluster EXCEPT
                                  !.checks[target_check].spec.muteNotifications = Some(TRUE),
                                  !.checks[target_check].spec.muteNotificationsUntil =
                                      IF IsSome(until_date_time) THEN until_date_time ELSE @]
                            /\ shared_checks' = [shared_checks EXCEPT
                                  ![target_check].mute_notifications = Some(TRUE),
                                  ![target_check].mute_notifications_until =
                                      IF IsSome(until_date_time) THEN until_date_time ELSE @]
                            /\ pending' = pending \cup {target_check}
                            /\ api_log' = [api_log EXCEPT ![target_check] = "muted"]
                       ELSE UNCHANGED <<cluster, shared_checks, pending, api_log>>
             /\ UNCHANGED <<queue, event_rx, scheduler, sched_log, now, runnerVars,
                            results_stream, resultVars, shared_original_checks,
                            last_reconcile, main, job, groupVars>>

\* DELETE /check/<target_check>/mute, lines 359-420: as mute_check, without
\* the 400, and with the patch muteNotifications: false,
\* muteNotificationsUntil: null
unmute_checkStatus(target_check, kube) ==
    IF target_check \notin DOMAIN shared_checks THEN 404
    ELSE IF kube = "err" \/ target_check \notin DOMAIN cluster.checks THEN 500
    ELSE 200

unmute_check ==
    /\ request.id < MaxRequests
    /\ \E keys \in RequestKeys, target_check \in CheckNames, kube \in {"ok", "err"} :
          \/ Unauthorized("unmute_check", keys, target_check)
          \/ /\ from_request(keys).ok
             /\ LET status == unmute_checkStatus(target_check, kube)
                IN  /\ request' = Response("unmute_check", keys, target_check, status, None)
                    /\ IF status = 200
                       THEN /\ cluster' = [cluster EXCEPT
                                  !.checks[target_check].spec.muteNotifications = Some(FALSE),
                                  !.checks[target_check].spec.muteNotificationsUntil = None]
                            /\ shared_checks' = [shared_checks EXCEPT
                                  ![target_check].mute_notifications = Some(FALSE),
                                  ![target_check].mute_notifications_until = None]
                            /\ pending' = pending \cup {target_check}
                            /\ api_log' = [api_log EXCEPT ![target_check] =
                                              IF @ = "none" THEN "none" ELSE "unmuted"]
                       ELSE UNCHANGED <<cluster, shared_checks, pending, api_log>>
             /\ UNCHANGED <<queue, event_rx, scheduler, sched_log, now, runnerVars,
                            results_stream, resultVars, shared_original_checks,
                            last_reconcile, main, job, groupVars>>

\* the bodies of POST /check/<target_check>/result
ProcessCheckResultPayloads == [output : Outputs, status : {0, 2, 7}]

\* lines 458-466: the CheckResult of a posted result
ApiCheckResultNeverMuted(target_check, check_result_payload, check) ==
    [check_name |-> target_check,
     output |-> check_result_payload.output,
     status |-> FromI32(check_result_payload.status),
     telegram_channels |-> check.telegram_channels,
     mute_notifications |-> None,
     mute_notifications_until |-> None]

ApiCheckResult(target_check, check_result_payload, check) ==
    [check_name |-> target_check,
     output |-> check_result_payload.output,
     status |-> FromI32(check_result_payload.status),
     telegram_channels |-> check.telegram_channels,
     mute_notifications |-> check.mute_notifications,
     mute_notifications_until |-> check.mute_notifications_until]

\* POST /check/<target_check>/result, lines 438-477: 404 when the model has
\* no such check; otherwise the CheckResult is built from the body and the
\* model entry and handed to crate::process_check_result, whose error is
\* answered with 500
api_process_check_result ==
    /\ request.id < MaxRequests
    /\ \E keys \in RequestKeys, target_check \in Names,
          check_result_payload \in ProcessCheckResultPayloads :
          \/ Unauthorized("process_check_result", keys, target_check)
          \/ /\ from_request(keys).ok
             /\ IF target_check \notin DOMAIN shared_checks
                THEN /\ request' = Response("process_check_result", keys, target_check, 404, None)
                     /\ UNCHANGED <<check_result, perf_data, notifications>>
                ELSE LET result == ApiCheckResult(target_check, check_result_payload,
                                                   shared_checks[target_check])
                     IN  \E fail_at \in 0..(Len(get_perf_data(result)) + 1),
                            delivered \in BOOLEAN :
                            LET p == process_check_result(result, 0, fail_at, delivered) IN
                            /\ check_result' = p.check_result
                            /\ perf_data' = p.perf_data
                            /\ notifications' = p.notifications
                            /\ request' = Response("process_check_result", keys, target_check,
                                                   IF p.ok THEN 200 ELSE 500, None)
             /\ UNCHANGED <<schedVars, now, runnerVars, results_stream, consumer, cluster,
                            shared_original_checks, pending, last_reconcile, api_log, main, job, groupVars>>

----------------------------------------------------------------------------
(* Specifications *)

Init == InitSched /\ InitRunner /\ InitStreams /\ InitResults /\ InitControl

Next == HandleCheckEvent \/ TimerFire \/ SendEvent \/ Tick

Spec == Init /\ [][Next]_vars

NextRunner == XaddTask \/ CtrlC \/ LoopTop \/ FetchTask \/ FetchError \/ ExecutionStep

\* the runner with its executions running beside one another
NextScripts == XaddTask \/ LoopTop \/ FetchTask \/ ScriptExecutionStep

SpecScripts == Init /\ [][NextScripts]_vars

\* the scheduler fed with checks whose interval nothing validated
NextUnvalidated == HandleCheckEvent \/ TimerFire \/ SendUnvalidated \/ Tick

SpecUnvalidated == Init /\ [][NextUnvalidated]_vars

SpecRunner == Init /\ [][NextRunner]_vars

NextResults ==
    \/ XaddResult \/ ConsumerConnect \/ ConsumerSignal \/ WaitForResult
    \/ WaitNothing \/ ProcessDelivered \/ AckResult \/ Tick

SpecResults == Init /\ [][NextResults]_vars

\* The result consumer is a spawned task the runtime keeps polling: it
\* takes its next step whenever it has one, and the call of
\* process_check_result it awaits at line 40 comes back.
ConsumerLoopStep ==
    \/ ConsumerConnect \/ ConsumerSignal \/ WaitForResult \/ WaitNothing \/ AckResult

SpecResultsFair ==
    /\ Init /\ [][NextResults]_vars
    /\ WF_vars(ConsumerLoopStep)
    /\ []<>(consumer.pc # "process")

\* one result of any shape is waiting in the results stream
InitNotify ==
    /\ InitSched /\ InitRunner /\ InitResults /\ InitControl
    /\ tasks_stream = <<>>
    /\ groups = [checks |-> <<"workers">>, results |-> <<"controller">>]
    /\ init_pc = [p \in Processes |-> 2]
    /\ \E r \in CheckResults : results_stream = <<StreamEntry(Json(r), 0)>>

SpecNotify == InitNotify /\ [][NextResults]_vars

MaxOutputLen == 5

\* the characters of an output: text, the delimiters, a digit
OutputChars == {"t", "|", ",", "=", "1"}

\* the output texts of at most MaxOutputLen characters
OutputTexts == UNION {[1..n -> OutputChars] : n \in 0..MaxOutputLen}

\* one result with any output text is waiting in the results stream
InitOutputs ==
    /\ InitSched /\ InitRunner /\ InitResults /\ InitControl
    /\ tasks_stream = <<>>
    /\ groups = [checks |-> <<"workers">>, results |-> <<"controller">>]
    /\ init_pc = [p \in Processes |-> 2]
    /\ \E output \in OutputTexts :
          results_stream =
             <<StreamEntry(Json([check_name |-> "a", output |-> output, status |-> "Ok",
                                 telegram_channels |-> <<>>, mute_notifications |-> None,
                                 mute_notifications_until |-> None]), 0)>>

\* the result consumer alone
NextOutputs ==
    \/ ConsumerConnect \/ ConsumerSignal \/ WaitForResult
    \/ WaitNothing \/ ProcessDelivered \/ AckResult

SpecOutputs == InitOutputs /\ [][NextOutputs]_vars

\* the reconciler with the upstream changes and the scheduler it feeds
NextReconcile ==
    \/ CreateCheck \/ DeleteCheck \/ ScriptEvent \/ ChannelEvent
    \/ SecretEvent \/ Reconcile \/ HandleCheckEvent

SpecReconcile == Init /\ [][NextReconcile]_vars

\* the runner, once it has run init_streams (runner.rs lines 17-20)
StartedRunnerStep ==
    /\ init_pc["runner"] = 2
    /\ LoopTop \/ FetchTask \/ FetchError

\* the processes starting against one server, tasks being added and read
NextStreams == init_streams \/ XaddTask \/ XaddResult \/ StartedRunnerStep

InitFirstStart == InitSched /\ InitRunner /\ InitNoStreams /\ InitResults /\ InitControl

SpecStreams == InitFirstStart /\ [][NextStreams]_vars

\* the startup of the controller
NextStartup == LoadCheck \/ LoadChecksOk \/ StartedHandleCheckEvent

InitMain == InitSched /\ InitRunner /\ InitStreams /\ InitResults /\ InitStartup

SpecStartup == InitMain /\ [][NextStartup]_vars

\* the startup of the controller with many checks declared. main is one
\* task: whenever its next step can be taken, it is taken.
NextDeclared == LoadListedCheck \/ LoadChecksOk

SpecDeclared ==
    /\ InitDeclared
    /\ [][NextDeclared]_vars
    /\ WF_vars(NextDeclared)

\* the places where an integer becomes a status: the exit code of a Job,
\* the status of a posted result, the status column read back
NextStatus ==
    \/ CreateCheck \/ Reconcile \/ HandleCheckEvent
    \/ JobResult \/ api_process_check_result \/ get_check_status

SpecStatus == Init /\ [][NextStatus]_vars

\* the API with the reconciler, which fills the model it serves
NextApi ==
    \/ CreateCheck \/ Reconcile \/ HandleCheckEvent \/ Tick
    \/ get_checks \/ get_check_status \/ get_performance_data
    \/ mute_check \/ unmute_check \/ api_process_check_result

SpecApi == Init /\ [][NextApi]_vars

\* the admin facade with the reconciler and the scheduler
NextFacade ==
    \/ CreateCheck \/ Reconcile \/ mute_check \/ unmute_check
    \/ HandleCheckEvent \/ TimerFire \/ Tick

SpecFacade == Init /\ [][NextFacade]_vars

\* the writers of the model: the scheduler, fed by the reconciler with
\* checks that come and go upstream, and the facade, whose two mute routes
\* write the model in the same way (unmute_check stands for both)
NextModel ==
    \/ CreateCheck \/ DeleteCheck \/ Reconcile \/ HandleCheckEvent
    \/ TimerFire \/ unmute_check \/ Tick

SpecModel == Init /\ [][NextModel]_vars

MaxDispatched == 1

\* enqueue_check, scheduler.rs lines 147-157: the payload of a task is the
\* JSON text of the queue entry's PinglowCheck, here with the fields the
\* runner reads
enqueue_checkPayload(check) ==
    Json([check_name |-> check.check_name,
          script |-> Some([content |-> "s1", python_requirements |-> None]),
          secrets_refs |-> None,
          telegram_channels |-> check.telegram_channels,
          mute_notifications |-> check.mute_notifications,
          mute_notifications_until |-> check.mute_notifications_until])

\* the timer arm of scheduler_loop (lines 101-136) with the connection and
\* the XADD of enqueue_check succeeding: the task is appended to
\* pinglow:checks and the entry is put back at next_run + interval
TimerFireEnqueue ==
    /\ scheduler = "running"
    /\ DOMAIN queue # {}
    /\ Len(tasks_stream) < MaxDispatched
    /\ LET scheduled_check == queue[MinKey(DOMAIN queue)]
           name == scheduled_check.check.check_name
       IN
       /\ scheduled_check.next_run <= now
       /\ name \in DOMAIN shared_checks
       /\ IsSome(scheduled_check.check.interval)
       /\ LET check_interval == Unwrap(scheduled_check.check.interval)
              next_run == scheduled_check.next_run + check_interval
          IN  /\ tasks_stream' = Append(tasks_stream,
                                       StreamEntry(enqueue_checkPayload(scheduled_check.check),
                                                   Len(tasks_stream) + 1))
              /\ queue' = Insert(Retain(queue, name), next_run,
                                 ScheduledCheck(next_run, scheduled_check.check))
              /\ sched_log' = LogPublish(scheduled_check.check, scheduled_check.next_run,
                                         check_interval)
    /\ UNCHANGED <<shared_checks, event_rx, scheduler, now, runner, execs, script_py, results_stream,
                   resultVars, controlVars>>

\* the mute settings a declared check can carry
MuteSettings ==
    [mute_notifications : {None, Some(TRUE), Some(FALSE)},
     mute_notifications_until : {None, Some(2)}]

\* check a, declared with a channel and any mute setting, was reconciled
\* and is in the model and in the queue
InitDispatch ==
    /\ InitRunner /\ InitStreams /\ InitResults
    /\ event_rx = <<>>
    /\ now = 0
    /\ scheduler = "running"
    /\ sched_log = [n \in Names |-> NoLog]
    /\ pending = {}
    /\ last_reconcile = [n \in Names |-> IF n = "a" THEN "ok" ELSE "none"]
    /\ api_log = [n \in Names |-> "none"]
    /\ main = Started
    /\ request = NoRequest
    /\ job = NoJob
    /\ \E m \in MuteSettings :
          LET spec == [CheckSpec(Some("s1"), None, Some(<<"ch1">>)) EXCEPT
                          !.muteNotifications = m.mute_notifications,
                          !.muteNotificationsUntil = m.mute_notifications_until]
              check == Check("a", spec)
              cl == [checks |-> [n \in {"a"} |-> check],
                     scripts |-> ScriptNames,
                     channels |-> ChannelNames,
                     secrets |-> [x \in SecretNames |-> "present"]]
              runnable_check == load_single_runnable_check(check, cl, "ok").value
          IN  /\ cluster = cl
              /\ shared_original_checks = [n \in {"a"} |-> check]
              /\ shared_checks = [n \in {"a"} |-> runnable_check]
              /\ queue = Insert(EmptyQueue, 1, ScheduledCheck(1, runnable_check))

\* a task from its dispatch by the scheduler to the notification of its
\* result, with the mute routes of the facade
NextDispatch ==
    \/ TimerFireEnqueue \/ mute_check \/ unmute_check \/ Tick
    \/ LoopTop \/ FetchTask \/ ExecutionStep
    \/ ConsumerConnect \/ WaitForResult \/ ProcessDelivered \/ AckResult

SpecDispatch == InitDispatch /\ [][NextDispatch]_vars

----------------------------------------------------------------------------
(* Properties of the scheduler, checked under Spec *)

IsScheduled(check) == ~check.passive /\ IsSome(check.interval)

\* the step appended a task of check name n to the tasks stream
Published(n) == sched_log'[n].last # sched_log[n].last

\* the step is the scheduler handling event e
Handled(e) == event_rx # <<>> /\ Head(event_rx) = e /\ event_rx' = Tail(event_rx)

\* C1: in every reachable state the queue holds at most one entry for any
\* check name.
C1_AtMostOneEntryPerName ==
    \A n \in Names : Cardinality(KeysOf(queue, n)) <= 1

\* two checks are queued, one of them after its timer fired
C1_Witness ==
    \E n, m \in Names :
        /\ n # m
        /\ KeysOf(queue, n) # {} /\ KeysOf(queue, m) # {}
        /\ IsSome(sched_log[n].last)

\* C2: whenever the event channel is empty and the scheduler is at the top
\* of its loop, every check of the model that is non-passive and has an
\* interval has exactly one queue entry (also when two checks have equal
\* next_run values).
C2_ExactlyOneEntryPerScheduledCheck ==
    (event_rx = <<>> /\ scheduler = "running") =>
        \A n \in DOMAIN shared_checks :
            IsScheduled(shared_checks[n]) => Cardinality(KeysOf(queue, n)) = 1

\* C3: after AddOrUpdate(rc) with rc.passive or rc.interval absent was
\* handled the queue holds no entry for rc's name, and no task of the name
\* is published while that AddOrUpdate is the latest one handled.
C3_PassiveNotQueued ==
    [][\A n \in Names :
          /\ (n \in DOMAIN shared_checks' /\ ~IsScheduled(shared_checks'[n]))
                => KeysOf(queue', n) = {}
          /\ (n \in DOMAIN shared_checks /\ ~IsScheduled(shared_checks[n]))
                => ~Published(n)]_vars

\* C4 as stated: per check the published next_run targets are non-decreasing
\* and two consecutive ones differ by at least the interval the check had
\* when the earlier one was published.
C4_StepAtLeastInterval ==
    [][\A n \in Names :
          (Published(n) /\ IsSome(sched_log[n].last)) =>
              LET old == Unwrap(sched_log[n].last)
                  new == Unwrap(sched_log'[n].last)
              IN  new.next_run >= old.next_run + old.interval]_vars

\* C4 as amended: the targets are non-decreasing, and they differ by at
\* least the earlier interval unless the queue entry of the check was built
\* anew (now + interval) by an AddOrUpdate between the two publications.
C4_StepUnlessRecreated ==
    [][\A n \in Names :
          (Published(n) /\ IsSome(sched_log[n].last)) =>
              LET old == Unwrap(sched_log[n].last)
                  new == Unwrap(sched_log'[n].last)
              IN  /\ new.next_run >= old.next_run
                  /\ ~sched_log[n].recreated
                        => new.next_run >= old.next_run + old.interval]_vars

\* a check was published twice, the second time with another interval
C4_Witness ==
    \E n \in Names :
        /\ sched_log[n].again
        /\ n \in DOMAIN shared_checks
        /\ shared_checks[n].interval # Some(Unwrap(sched_log[n].last).interval)

\* C5: handling Remove(name) leaves no entry for name in the model and in
\* the queue and leaves the entries of the other checks as they were; no
\* task of name is published while name is absent from the model, that is
\* until an AddOrUpdate for it is handled.
C5_RemoveErases ==
    [][\A n \in Names :
          /\ Handled(Remove(n)) =>
                /\ n \notin DOMAIN shared_checks'
                /\ KeysOf(queue', n) = {}
                /\ \A k \in DOMAIN queue \ KeysOf(queue, n) :
                      k \in DOMAIN queue' /\ queue'[k] = queue[k]
                /\ \A m \in DOMAIN shared_checks \ {n} :
                      m \in DOMAIN shared_checks' /\ shared_checks'[m] = shared_checks[m]
          /\ n \notin DOMAIN shared_checks => ~Published(n)
          /\ n \notin DOMAIN shared_checks' => KeysOf(queue', n) = {}]_vars

\* a check that was published is removed while another one stays queued,
\* and the time of its next run has come
C5_Witness ==
    \E n \in Names :
        /\ n \notin DOMAIN shared_checks
        /\ IsSome(sched_log[n].last)
        /\ now >= Unwrap(sched_log[n].last).next_run + Unwrap(sched_log[n].last).interval
        /\ DOMAIN queue # {}

----------------------------------------------------------------------------
(* Properties of the runner, checked under SpecRunner *)

\* the execution of task entry id ran to its end
Finished(id) == execs[id].pc = "done"

\* the stream did not fail the execution of task entry id: its connection
\* was obtained and its XACK and XADD, when made, succeeded
StreamReachable(id) ==
    /\ ~(IsSome(execs[id].result) /\ execs[id].xack = "no")
    /\ execs[id].xack # "err"
    /\ execs[id].xadd # "err"

ResultsOf(id) == {i \in DOMAIN results_stream : results_stream[i].task = id}

\* C6: every task the runner fetched is acknowledged on the tasks stream
\* once its execution has ended, whatever the outcome of the execution,
\* when the stream is reachable.
C6_FetchedTaskAcked ==
    \A id \in DOMAIN execs :
        (Finished(id) /\ StreamReachable(id)) => tasks_stream[id].state = "acked"

\* C7: every task the runner acknowledged has a CheckResult on the results
\* stream once its execution has ended.
C7_AckedTaskHasResult ==
    \A id \in DOMAIN execs :
        (Finished(id) /\ tasks_stream[id].state = "acked") => ResultsOf(id) # {}

\* C8: when execute_check fails, the runner publishes a CheckResult with
\* status CheckError and the error text as output on the results stream.
C8_FailureGivesCheckErrorResult ==
    \A id \in DOMAIN execs :
        (Finished(id) /\ IsSome(execs[id].error)) =>
            \E i \in ResultsOf(id) :
                /\ FromJson(results_stream[i].payload).status = "CheckError"
                /\ FromJson(results_stream[i].payload).output = Unwrap(execs[id].error)

----------------------------------------------------------------------------
(* Properties of the result consumer *)

\* the step is the consumer finishing process_check_result with Ok
Processed == consumer.pc = "process" /\ consumer'.pc = "ack"

\* the mute predicate of the specification
Suppressed(result, utc_now) ==
    /\ result.mute_notifications = Some(TRUE)
    /\ \/ result.mute_notifications_until = None
       \/ Unwrap(result.mute_notifications_until) > utc_now

\* C9 (SpecNotify): a processed result is notified, to each channel it
\* carries, if and only if its status is neither Ok nor Pending and it is
\* not suppressed, where suppressed is mute_notifications = true and
\* (mute_notifications_until absent or later than now).
C9_NotifyIffNotSuppressed ==
    [][Processed =>
          LET id == Unwrap(consumer.current)
              result == FromJson(results_stream[id].payload)
              sent == SubSeq(notifications', Len(notifications) + 1, Len(notifications'))
          IN  IF result.status \notin {"Ok", "Pending"} /\ ~Suppressed(result, now)
              THEN /\ Len(sent) = Len(result.telegram_channels)
                   /\ \A k \in DOMAIN sent :
                         sent[k].of = id /\ sent[k].channel = result.telegram_channels[k]
              ELSE sent = <<>>]_vars

\* a result muted until a time that has passed was notified
C9_Witness ==
    \E k \in DOMAIN notifications :
        LET result == FromJson(results_stream[notifications[k].of].payload) IN
        /\ result.mute_notifications = Some(TRUE)
        /\ IsSome(result.mute_notifications_until)
        /\ Unwrap(result.mute_notifications_until) <= now

\* C10 (SpecResults): every delivery of a result to the consumer writes
\* exactly one check_result row, never zero and never more than one.
C10_OneRowPerDelivery ==
    \A id \in DOMAIN results_stream :
        (/\ results_stream[id].state # "new"
         /\ Decodes(results_stream[id].payload)
         /\ ~(consumer.pc = "process" /\ consumer.current = Some(id)))
            => Cardinality({k \in DOMAIN check_result : check_result[k].of = id}) = 1

\* the check_result rows written for stream entry id
RowsOf(id) == {k \in DOMAIN check_result : check_result[k].of = id}

\* C11 (SpecResults): in no reachable state is a results-stream entry
\* acknowledged whose check_result row has not been persisted: the consumer
\* acknowledges only after the result was processed successfully.
C11_AckOnlyAfterRowWritten ==
    \A id \in DOMAIN results_stream :
        results_stream[id].state = "acked" => RowsOf(id) # {}

\* a result with perf data was written and acknowledged
C11_Witness ==
    \E id \in DOMAIN results_stream :
        /\ results_stream[id].state = "acked"
        /\ RowsOf(id) # {}
        /\ \E k \in DOMAIN perf_data : perf_data[k].of = id

\* entry id of the results stream was delivered and is not acknowledged,
\* and the consumer is not working on it
Unacked(id) ==
    /\ id \in DOMAIN results_stream
    /\ results_stream[id].state = "pending"
    /\ consumer.current # Some(id)

\* C12 (SpecResultsFair): a results-stream entry that was delivered but not
\* acknowledged (its payload did not decode, or processing failed before
\* the ack) is delivered again by a later read, or acknowledged, as long
\* as the consumer task goes on reading.
C12_UnackedDeliveredAgain ==
    \A id \in 1..MaxResults :
        Unacked(id) ~>
            \/ consumer.pc \in {"panicked", "returned"}
            \/ /\ id \in DOMAIN results_stream
               /\ \/ results_stream[id].state = "acked"
                  \/ results_stream[id].deliveries >= 2

\* the requests the step adds to the ones made to the chat webhook
Sent == SubSeq(notifications', Len(notifications) + 1, Len(notifications'))

\* C13 (SpecNotify): when sending a notification for a result fails, the
\* consumer still goes on to acknowledge that result (the failure does not
\* end process_check_result with an error), and the notification is not
\* retried: no request is made twice for the same entry and channel.
C13_NotifierFailureStillAcked ==
    [][/\ (\E k \in DOMAIN Sent : ~Sent[k].delivered) =>
             /\ consumer'.pc = "ack"
             /\ consumer'.current = consumer.current
       /\ \A k \in DOMAIN Sent : \A j \in DOMAIN notifications :
             notifications[j].of # Sent[k].of]_vars

\* a notification failed, its result was acknowledged and the consumer
\* went on to read the next result
C13_Witness ==
    \E k \in DOMAIN notifications :
        /\ ~notifications[k].delivered
        /\ results_stream[notifications[k].of].state = "acked"
        /\ \E id \in DOMAIN results_stream :
              id > notifications[k].of /\ results_stream[id].state # "new"

----------------------------------------------------------------------------
(* Properties of the reconciler, checked under SpecReconcile *)

\* the step is a reconcile of check n that ended (otherwise than its
\* previous one, or with Ok)
Reconciled(n) ==
    \/ last_reconcile'[n] # last_reconcile[n]
    \/ n \in pending /\ n \notin pending'

\* check n is upstream, not being deleted
Live(n) ==
    /\ n \in DOMAIN cluster.checks
    /\ ~IsSome(cluster.checks[n].deletion_timestamp)

\* the script, a channel or the credential secret of a channel that check
\* refers to is missing in cluster cl
MissingReference(check, cl) ==
    \/ IsSome(check.spec.scriptRef) /\ Unwrap(check.spec.scriptRef) \notin cl.scripts
    \/ /\ IsSome(check.spec.telegramChannelRefs)
       /\ \E k \in DOMAIN Unwrap(check.spec.telegramChannelRefs) :
             LET channel == Unwrap(check.spec.telegramChannelRefs)[k] IN
             \/ channel \notin cl.channels
             \/ cl.secrets[botTokenRef(channel)] # "present"

\* C15: when the reconcile of a check fails because a referenced script,
\* channel or channel credential secret is missing, it returns a typed
\* error, sends no event, and leaves the raw model, the scheduler's model
\* entry and the queue entry as they were.
C15_FailedReconcileKeepsLastGood ==
    [][\A n \in CheckNames :
          (Live(n) /\ MissingReference(cluster.checks[n], cluster) /\ Reconciled(n)) =>
              /\ last_reconcile'[n] \in
                    {"ScriptNotFound", "TelegramChannelNotFound", "SecretNotFound"}
              /\ event_rx' = event_rx
              /\ shared_original_checks' = shared_original_checks
              /\ shared_checks' = shared_checks
              /\ queue' = queue]_vars

\* a check that was reconciled and queued fails its reconcile because its
\* script is gone, and is still in the models and in the queue
C15_Witness ==
    \E n \in CheckNames :
        /\ last_reconcile[n] = "ScriptNotFound"
        /\ n \in DOMAIN shared_original_checks
        /\ n \in DOMAIN shared_checks
        /\ KeysOf(queue, n) # {}

\* C16: once the reconciler has no request left and the scheduler has
\* drained the channel, a check that was deleted upstream is neither in
\* the raw model nor in the scheduler's model nor in its queue.
C16_DeletedCheckErased ==
    (pending = {} /\ event_rx = <<>> /\ scheduler = "running") =>
        \A n \in CheckNames :
            n \notin DOMAIN cluster.checks =>
                /\ n \notin DOMAIN shared_original_checks
                /\ n \notin DOMAIN shared_checks
                /\ KeysOf(queue, n) = {}

\* a secret named in the secretRefs of check does not exist in cluster cl
SecretRefMissing(check, cl) ==
    /\ IsSome(check.spec.secretRefs)
    /\ \E k \in DOMAIN Unwrap(check.spec.secretRefs) :
          cl.secrets[Unwrap(check.spec.secretRefs)[k]] = "absent"

\* C17: the reconcile of a check whose secretRefs names a secret that does
\* not exist upstream returns an error and sends no ResolvedCheck to the
\* scheduler.
C17_MissingSecretFailsClosed ==
    [][\A n \in CheckNames :
          (Live(n) /\ SecretRefMissing(cluster.checks[n], cluster) /\ Reconciled(n)) =>
              /\ last_reconcile'[n] # "ok"
              /\ event_rx' = event_rx]_vars

\* check lists secret s in secretRefs, or refers to a channel of cluster cl
\* whose botTokenRef is s
DependsOnSecret(check, s, cl) ==
    \/ /\ IsSome(check.spec.secretRefs)
       /\ \E k \in DOMAIN Unwrap(check.spec.secretRefs) :
             Unwrap(check.spec.secretRefs)[k] = s
    \/ /\ IsSome(check.spec.telegramChannelRefs)
       /\ \E k \in DOMAIN Unwrap(check.spec.telegramChannelRefs) :
             LET channel == Unwrap(check.spec.telegramChannelRefs)[k] IN
             channel \in cl.channels /\ botTokenRef(channel) = s

\* C18: an event on Secret s asks for the reconcile of every check of the
\* raw model that lists s in secretRefs or refers to a channel whose
\* botTokenRef is s.
C18_SecretEventReachesAllChecks ==
    [][\A s \in SecretNames :
          cluster'.secrets[s] # cluster.secrets[s] =>
              \A n \in DOMAIN shared_original_checks :
                  DependsOnSecret(shared_original_checks[n], s, cluster) => n \in pending']_vars

----------------------------------------------------------------------------
(* Properties of the admin facade, checked under SpecFacade *)

\* C19: after a PUT .../mute and then a DELETE .../mute that succeeded, the
\* model entry of the check has mute_notifications false or absent and
\* mute_notifications_until absent, and the task published next for the
\* check carries mute fields that do not suppress the notification of its
\* result, in every interleaving with the scheduler and the reconciler.
C19_UnmuteRestoresNotification ==
    [][\A n \in CheckNames :
          /\ (api_log'[n] = "unmuted" /\ n \in DOMAIN shared_checks') =>
                /\ shared_checks'[n].mute_notifications # Some(TRUE)
                /\ shared_checks'[n].mute_notifications_until = None
          /\ (api_log[n] = "unmuted" /\ Published(n)) =>
                ~Suppressed(Unwrap(sched_log'[n].last), now)]_vars

\* C20: every task the scheduler publishes for a check after a PUT
\* .../mute succeeded and before an unmute carries mute_notifications =
\* true, whether or not a reconcile event for the check was handled since.
C20_MuteVisibleToScheduler ==
    [][\A n \in CheckNames :
          (api_log[n] = "muted" /\ Published(n)) =>
              Unwrap(sched_log'[n].last).mute_notifications = Some(TRUE)]_vars

----------------------------------------------------------------------------
(* Properties of the scheduler, continued *)

\* the interval of check is absent or zero
NoPositiveInterval(check) ==
    ~IsSome(check.interval) \/ Unwrap(check.interval) = 0

\* C21 (SpecUnvalidated): a non-passive check whose interval is absent or
\* zero has no queue entry once its AddOrUpdate is handled, and no task is
\* published for it.
C21_InvalidIntervalDropped ==
    [][\A n \in Names :
          /\ (n \in DOMAIN shared_checks' /\ ~shared_checks'[n].passive
                 /\ NoPositiveInterval(shared_checks'[n]))
                => KeysOf(queue', n) = {}
          /\ (n \in DOMAIN shared_checks /\ ~shared_checks[n].passive
                 /\ NoPositiveInterval(shared_checks[n]))
                => ~Published(n)]_vars

----------------------------------------------------------------------------
(* Properties of the runner, continued *)

\* C22 (SpecRunner): once the runner has exited after SIGINT, every task it
\* had fetched has finished its execution.
C22_FetchedTasksCompleteBeforeExit ==
    (runner.pc = "exited" /\ runner.cancelled)
        => \A id \in DOMAIN execs : Finished(id)

----------------------------------------------------------------------------
(* Properties of the controller's startup, checked under SpecStartup *)

\* what load_single_runnable_check returns for a reference to a missing
\* script, channel or credential secret
MissingReferenceErrors == {"ScriptNotFound", "TelegramChannelNotFound", "SecretNotFound"}

\* C23 (SpecStartup): a check that refers to a missing script, channel or
\* secret does not keep the controller from starting: main never ends on
\* the error of such a check.
C23_MissingReferenceNotFatalAtStartup ==
    ~(main.pc = "failed" /\ Unwrap(main.error) \in MissingReferenceErrors)

----------------------------------------------------------------------------
(* Properties of the API, checked under SpecApi *)

\* the step answered a request
Answered == request'.id # request.id

\* C24 (SpecApi): a request that does not carry exactly one x-api-key
\* header equal to the configured key is answered 401 without a body, and
\* the model, the cluster, the tables and the notifications stay as they
\* were.
C24_KeyRequiredByEveryEndpoint ==
    [][(Answered /\ ~(Len(request'.keys) = 1 /\ request'.keys[1] = api_key))
          => /\ request'.status = 401
             /\ ~IsSome(request'.body)
             /\ UNCHANGED <<shared_checks, cluster, pending, check_result, perf_data,
                            notifications, api_log>>]_vars

\* the key sent twice with a mute request for a check of the model is
\* answered 401
C24_Witness ==
    /\ request.endpoint = "mute_check"
    /\ request.keys = <<"k", "k">>
    /\ request.status = 401
    /\ request.target_check \in DOMAIN shared_checks

\* the step answered a POST /check/<name>/result that passed the key guard
ResultPosted ==
    /\ Answered
    /\ request'.endpoint = "process_check_result"
    /\ request'.status # 401

\* C25 (SpecApi): a result posted for a name the model does not hold is
\* answered 404 and writes no row and sends no notification; one posted for
\* a name of the model and answered 200 writes one check_result row of that
\* name, and is notified to the channels of the model entry exactly when the
\* mute fields of the model entry allow it.
C25_PostedResultUsesModelEntry ==
    [][ResultPosted =>
          LET n == request'.target_check IN
          IF n \notin DOMAIN shared_checks
          THEN /\ request'.status = 404
               /\ UNCHANGED <<check_result, perf_data, notifications>>
          ELSE request'.status = 200 =>
                  LET row == check_result'[Len(check_result')]
                      posted == SubSeq(notifications', Len(notifications) + 1,
                                       Len(notifications'))
                      allowed == ShouldNotify(
                                    [status |-> FromI32(row.status),
                                     mute_notifications |-> shared_checks[n].mute_notifications,
                                     mute_notifications_until |->
                                         shared_checks[n].mute_notifications_until], now)
                  IN  /\ Len(check_result') = Len(check_result) + 1
                      /\ SubSeq(check_result', 1, Len(check_result)) = check_result
                      /\ row.check_name = n
                      /\ SubSeq(notifications', 1, Len(notifications)) = notifications
                      /\ [k \in DOMAIN posted |-> posted[k].channel] =
                            IF allowed THEN shared_checks[n].telegram_channels ELSE <<>>]_vars

\* a critical result posted for a muted check with a channel was stored and
\* not notified
C25_Witness ==
    /\ request.endpoint = "process_check_result"
    /\ request.status = 200
    /\ request.target_check \in DOMAIN shared_checks
    /\ shared_checks[request.target_check].mute_notifications = Some(TRUE)
    /\ shared_checks[request.target_check].telegram_channels # <<>>
    /\ check_result # <<>>
    /\ check_result[Len(check_result)].status = 2
    /\ notifications = <<>>

----------------------------------------------------------------------------
(* Properties of the status codes, checked under SpecStatus *)

\* C26 (SpecStatus): the status built from an exit code is Ok for 0, Warning
\* for 1, Critical for 2, Pending for 4 and CheckError for every other
\* integer and for an absent exit code; and decoding the number of a status
\* gives the status back.
C26_StatusDecoding ==
    /\ IsSome(job.status) =>
          Unwrap(job.status) =
             IF job.exit_code = Some(0) THEN "Ok"
             ELSE IF job.exit_code = Some(1) THEN "Warning"
             ELSE IF job.exit_code = Some(2) THEN "Critical"
             ELSE IF job.exit_code = Some(4) THEN "Pending"
             ELSE "CheckError"
    /\ \A s \in CheckResultStatus : FromI32(to_number(s)) = s

\* a Job without an exit code got the status CheckError
C26_Witness ==
    /\ ~IsSome(job.exit_code)
    /\ job.status = Some("CheckError")

----------------------------------------------------------------------------
(* Properties of the output text, checked under SpecOutputs *)

\* the positions of ch in str
Positions(str, ch) == {i \in DOMAIN str : str[i] = ch}

\* the part of an output before its first '|', all of it when it has none
HumanText(out) ==
    IF Positions(out, "|") = {} THEN out
    ELSE SubSeq(out, 1, MinKey(Positions(out, "|")) - 1)

\* the part of an output after its first '|', empty when it has none
PerfText(out) ==
    IF Positions(out, "|") = {} THEN <<>>
    ELSE SubSeq(out, MinKey(Positions(out, "|")) + 1, Len(out))

\* the first '=' of each comma separated segment of perf that has one
KeyEnds(perf) ==
    {i \in Positions(perf, "=") :
        \A j \in Positions(perf, "=") :
            j < i => \E m \in Positions(perf, ",") : j < m /\ m < i}

\* the text between position i and the next comma
ValueText(perf, i) ==
    LET commas == {m \in Positions(perf, ",") : m > i}
    IN  SubSeq(perf, i + 1, IF commas = {} THEN Len(perf) ELSE MinKey(commas) - 1)

\* the k-th smallest element of S
Nth(S, k) == CHOOSE i \in S : Cardinality({j \in S : j < i}) = k - 1

\* C27 (SpecOutputs): for a processed result, the text of its check_result
\* row is the output before its first '|' (all of it without '|'); it has one
\* perf row per comma separated segment with an '=' of the part after the
\* first '|'; the value of a row is 0 when its text is not a number; an
\* empty output gives an empty text and no perf row.
C27_OutputSplitIntoTextAndPerfRows ==
    [][Processed =>
          LET out == FromJson(results_stream[Unwrap(consumer.current)].payload).output
              perf == PerfText(out)
              rows == SubSeq(perf_data', Len(perf_data) + 1, Len(perf_data'))
          IN  /\ Len(check_result') = Len(check_result) + 1
              /\ check_result'[Len(check_result')].output = HumanText(out)
              /\ Len(rows) = Cardinality(KeyEnds(perf))
              /\ \A k \in DOMAIN rows :
                    LET value == ParseF32(Trim(ValueText(perf, Nth(KeyEnds(perf), k))))
                    IN  rows[k].perf_value = IF IsSome(value) THEN Unwrap(value) ELSE 0
              /\ out = <<>> => (check_result'[Len(check_result')].output = <<>>
                                  /\ rows = <<>>)]_vars

\* a result whose output has two segments with '=', one of them without a
\* number, was written with two perf rows
C27_Witness ==
    /\ check_result # <<>>
    /\ Len(perf_data) = 2
    /\ perf_data[1].perf_value = 1
    /\ perf_data[2].perf_value = 0
    /\ consumer.pc = "ack"

----------------------------------------------------------------------------
(* Properties of the stream setup, checked under SpecStreams *)

\* some process has run init_streams to its end
InitStreamsRan == \E p \in Processes : init_pc[p] = 2

\* C28 (SpecStreams): once init_streams has run, the tasks stream has the
\* one group workers and the results stream the one group controller, and a
\* further run, by any process, changes neither the groups nor the streams.
C28_StreamSetupIdempotent ==
    [][/\ InitStreamsRan' =>
             groups' = [checks |-> <<"workers">>, results |-> <<"controller">>]
       /\ (InitStreamsRan /\ init_pc' # init_pc) =>
             UNCHANGED <<groups, tasks_stream, results_stream>>]_vars

\* three processes have run init_streams, the last of them after the runner
\* had read a task
C28_Witness ==
    /\ \A p \in Processes : init_pc[p] = 2
    /\ \E i \in DOMAIN tasks_stream : tasks_stream[i].state = "pending"
    /\ groups.checks = <<"workers">>

----------------------------------------------------------------------------
(* Properties of the queue entries, checked under Spec *)

\* C29 (Spec): handling AddOrUpdate(rc) for a non-passive check with an
\* interval leaves one queue entry of the name, carrying rc: at the next_run
\* of the entry the name had before, when it had one, and at now + interval
\* otherwise.
C29_UpdateKeepsNextRun ==
    [][\A rc \in ResolvedChecks :
          (Handled(AddOrUpdate(rc)) /\ ~rc.passive /\ IsSome(rc.interval)) =>
              LET n == rc.check_name IN
              /\ KeysOf(queue', n) = IF KeysOf(queue, n) # {} THEN KeysOf(queue, n)
                                     ELSE {now + Unwrap(rc.interval)}
              /\ \A k \in KeysOf(queue', n) :
                    queue'[k].next_run = k /\ queue'[k].check = rc]_vars

\* a check that was never published is queued earlier than one interval
\* from the start: an update gave it a longer interval and kept its next_run
C29_Witness ==
    \E n \in Names :
        /\ ~IsSome(sched_log[n].last)
        /\ \E k \in KeysOf(queue, n) : k < Unwrap(queue[k].check.interval)

\* the step is the timer of the first queue entry firing for a check of the
\* model
Fired ==
    /\ queue' # queue
    /\ event_rx' = event_rx
    /\ queue[MinKey(DOMAIN queue)].check.check_name \in DOMAIN shared_checks

\* C30 (Spec): when the timer of a check with target next_run t and
\* interval i fires, a task of the check with target t is published and the
\* entry of the check is put back at t + i, whatever the time is then.
C30_FireRepublishesAtTargetPlusInterval ==
    [][(DOMAIN queue # {} /\ Fired) =>
          LET scheduled_check == queue[MinKey(DOMAIN queue)]
              n == scheduled_check.check.check_name
              t == scheduled_check.next_run
              i == Unwrap(scheduled_check.check.interval)
          IN  /\ Published(n)
              /\ Unwrap(sched_log'[n].last).next_run = t
              /\ KeysOf(queue', n) = {t + i}
              /\ queue'[t + i] = ScheduledCheck(t + i, scheduled_check.check)]_vars

----------------------------------------------------------------------------
(* Properties of the runner: the order of acknowledgement and publication *)

\* C31 (SpecRunner): a result is on the results stream only for a task whose
\* XACK the runner has already sent, and the step that publishes the result
\* of a task is never the step that sends its XACK or an earlier one.
C31_AckBeforePublish ==
    [][\A id \in DOMAIN execs' :
          ResultsOf(id)' # {} =>
              /\ execs'[id].xack # "no"
              /\ (id \in DOMAIN execs /\ ResultsOf(id) = {}) => execs[id].xack # "no"]_vars

\* a task was acknowledged and its result then published
C31_Witness ==
    \E id \in DOMAIN execs :
        /\ ResultsOf(id) # {}
        /\ execs[id].xack = "ok"
        /\ tasks_stream[id].state = "acked"

----------------------------------------------------------------------------
(* Properties of the scheduler: a fire whose task cannot be published *)

\* C32 (Spec): when the timer of a check fires and its task is not published
\* (no connection to the stream, or the append fails), the scheduler keeps
\* running, the entry of the check is put back at next_run + interval and the
\* entries of the other checks are what they were.
C32_PublishFailureKeepsScheduler ==
    [][(DOMAIN queue # {} /\ Fired /\ sched_log' = sched_log) =>
          LET scheduled_check == queue[MinKey(DOMAIN queue)]
              n == scheduled_check.check.check_name
              t == scheduled_check.next_run
              i == Unwrap(scheduled_check.check.interval)
          IN  /\ scheduler' = "running"
              /\ KeysOf(queue', n) = {t + i}
              /\ \A m \in Names \ {n} :
                    /\ KeysOf(queue', m) = KeysOf(queue, m)
                    /\ \A k \in KeysOf(queue, m) : queue'[k] = queue[k]]_vars

----------------------------------------------------------------------------
(* Properties of the facade: muting and unmuting *)

\* C33 (SpecFacade): when PUT /check/{name}/mute without until is answered
\* with 200, the model entry of the check has mute_notifications = true and
\* no mute_notifications_until, whatever an earlier mute had set.
C33_MuteWithoutUntilIsIndefinite ==
    [][(/\ Answered
        /\ request'.endpoint = "mute_check"
        /\ request'.status = 200
        /\ request'.until = None)
          => LET check == shared_checks'[request'.target_check] IN
             /\ check.mute_notifications = Some(TRUE)
             /\ check.mute_notifications_until = None]_vars

\* the mute fields carried by the task of results-stream entry id
TaskOfResult(id) == FromJson(tasks_stream[results_stream[id].task].payload)

\* C34 (SpecDispatch): whether a streamed result is notified is decided by
\* its status and by the mute fields its task carried when the scheduler
\* dispatched it, whatever the model entry of the check says when the
\* result is processed.
C34_NotifyDecidedByDispatchedTask ==
    [][Processed =>
          LET id == Unwrap(consumer.current)
              result == FromJson(results_stream[id].payload)
              task == TaskOfResult(id)
          IN  (Sent # <<>>) <=>
                 /\ result.status \notin {"Ok", "Pending"}
                 /\ task.telegram_channels # <<>>
                 /\ ~Suppressed(task, now)]_vars

\* the result of a task dispatched unmuted was notified although the check
\* has been muted through the facade
C34_Witness ==
    /\ consumer.pc = "ack"
    /\ LET id == Unwrap(consumer.current) IN
          /\ TaskOfResult(id).mute_notifications = None
          /\ \E k \in DOMAIN notifications : notifications[k].of = id
    /\ request.endpoint = "mute_check"
    /\ request.status = 200
    /\ request.until = None
    /\ shared_checks["a"].mute_notifications = Some(TRUE)
    /\ shared_checks["a"].mute_notifications_until = None

\* the mute fields of the model entries
MuteFields(checks) ==
    [n \in DOMAIN checks |-> <<checks[n].mute_notifications, checks[n].mute_notifications_until>>]

\* C35 (SpecFacade): a mute or unmute request that is not answered with 200
\* leaves the mute fields of the model as they were; the answer is 404
\* exactly when the model has no such check, 400 only when until does not
\* parse, and always then when the check is known, and 400 and 500 only for
\* a known check; nothing is patched upstream by a request that fails.
C35_FailedMuteLeavesModel ==
    [][(/\ Answered
        /\ request'.endpoint \in {"mute_check", "unmute_check"}
        /\ request'.status # 200)
          => LET n == request'.target_check
                 until == request'.until
                 unparseable == IsSome(until) /\ ~parse_from_rfc3339(Unwrap(until)).ok
             IN  /\ MuteFields(shared_checks') = MuteFields(shared_checks)
                 /\ cluster' = cluster
                 /\ request'.status \in {400, 401, 404, 500}
                 /\ request'.status # 401 =>
                       /\ request'.status = 404 <=> n \notin DOMAIN shared_checks
                       /\ request'.status = 400 => unparseable
                       /\ (unparseable /\ n \in DOMAIN shared_checks) => request'.status = 400]_vars

\* an unmute of a check muted until a timestamp was answered with 500 and
\* the check is still muted until then
C35_Witness ==
    /\ request.endpoint = "unmute_check"
    /\ request.status = 500
    /\ request.target_check \in DOMAIN shared_checks
    /\ shared_checks[request.target_check].mute_notifications = Some(TRUE)
    /\ IsSome(shared_checks[request.target_check].mute_notifications_until)

\* C36 (SpecFacade): from a PUT /check/{name}/mute answered with 200 until
\* a DELETE mute succeeds (no other upstream change of a check exists under
\* SpecFacade), the model entry of the check has mute_notifications = true,
\* whatever events the scheduler handles in between.
C36_MuteSurvivesStaleEvent ==
    \A n \in CheckNames :
        api_log[n] = "muted" =>
            /\ n \in DOMAIN shared_checks
            /\ shared_checks[n].mute_notifications = Some(TRUE)

----------------------------------------------------------------------------
(* Properties of the startup, continued *)

\* C37 (SpecDeclared): whatever the number of declared checks, load_checks
\* returns and main goes on to start the scheduler, the result consumer and
\* the HTTP server.
C37_StartupTerminates == <>(main.pc = "running")

----------------------------------------------------------------------------
(* Properties of the model and the queue *)

\* C38 (SpecModel): in every reachable state the check name of every queue
\* entry is a key of the model.
C38_QueuedNamesInModel ==
    \A k \in DOMAIN queue : queue[k].check.check_name \in DOMAIN shared_checks

\* a check whose timer fired and that the facade rewrote was removed: it
\* is in neither the queue nor the model
C38_Witness ==
    /\ request.endpoint = "unmute_check"
    /\ request.status = 200
    /\ IsSome(sched_log[request.target_check].last)
    /\ last_reconcile[request.target_check] = "ok"
    /\ request.target_check \notin DOMAIN cluster.checks
    /\ request.target_check \notin DOMAIN shared_checks
    /\ DOMAIN queue = {}

----------------------------------------------------------------------------
(* Properties of the runner: the script file *)

\* C39 (SpecScripts): the python process of every execution ran the script
\* content its own task carries, also when another execution of the same
\* check is in flight on the runner.
C39_ExecutionRunsOwnScript ==
    \A id \in DOMAIN execs :
        IsSome(execs[id].ran) =>
            Unwrap(execs[id].ran) = Unwrap(FromJson(tasks_stream[id].payload).script).content

=============================================================================
